---------------------------- MODULE Spec2Model ----------------------------
(***************************************************************************)
(* A model of the cspec test runtime (cspec.c / cspec.h): the re-entrant   *)
(* context / test execution engine and the fenced sandbox allocator.       *)
(*                                                                         *)
(* A spec file is a sequence of source lines (tokens); the line number of  *)
(* a token is its index.  "D" is a describe() line (start of a group       *)
(* function), "C" a context() line, "E" the closing brace of a context     *)
(* (where the second iteration of the context's for loop runs), "T" a      *)
(* test()/it() line and "G" any other line.  A run over several suites is  *)
(* the concatenation of their files: "S" is the describe() line that is    *)
(* line 1 of the next suite's file.                                        *)
(***************************************************************************)
EXTENDS Integers, Sequences, FiniteSets, TLC

(* ------------------------------ bounds -------------------------------- *)
MaxLines == 5
EngineBodyOps == 1
TestBodyOps == 3
MaxBodyOps == 5
MaxAllocSize == 2
MaxWrites == 1
ReallocBodyOps == 4
NullBodyOps == 4
PairBodyOps == 3
ScopeLines == 6
WordBodyOps == 3
SizeBits == 8

\* the two sizes a build may set (#ifndef memory_size_max in cspec.h, 4096
\* by default; #ifndef cspec_ctx_stack_size_max in cspec.c, 20 by default),
\* scaled down: an arena that holds three blocks, a stack of two contexts
memory_size_max == 60
cspec_ctx_stack_size_max == 3

(* ------------------------- program constants -------------------------- *)
memory_size_fence == 7
memory_size_barrier == 16
memory_size_full == memory_size_max + memory_size_barrier * 2

\* byte values used by the sandbox (ASCII) and by the test bodies
BYTE_b == 98
BYTE_e == 101
BYTE_N == 78
BYTE_F == 70
BYTE_X == 88
BYTE_FF == 255
BYTE_bang == 33

\* MallocFailLevel
M_NORMAL == 0
M_WAS_EXPECTED == 1
M_FAIL_ONCE == 2
M_FAIL_ALWAYS == 3

\* pointers are offsets from `memory` (= _memory + memory_size_barrier);
\* NULL and a pointer to an object outside the arena are two further values
NULL == 0 - 1000
OUTSIDE == 0 - 500

(* --------------------------- the spec file ---------------------------- *)
Tokens == {"D", "C", "E", "T", "G"}

\* a describe() line, in the first file or as line 1 of a later file
IsGroup(t) == t \in {"D", "S"}

RECURSIVE DepthAt(_, _)
\* nesting depth of contexts after the first i tokens; -1 once ill-formed
DepthAt(f, i) ==
  IF i = 0 THEN 0
  ELSE LET d == DepthAt(f, i - 1) IN
       IF d < 0 THEN d
       ELSE IF f[i] = "C" THEN d + 1
       ELSE IF f[i] = "E" THEN d - 1
       ELSE IF IsGroup(f[i]) THEN (IF d = 0 THEN 0 ELSE 0 - 1)
       ELSE d

WellFormed(f) ==
  /\ f[1] = "D"
  /\ \A i \in 1..Len(f) : DepthAt(f, i) >= 0
  /\ DepthAt(f, Len(f)) = 0

Files == {f \in [1..MaxLines -> Tokens] : WellFormed(f)}

VARIABLES
  file, argv,
  pc, ip, grp, prev_line, tmp_line, exit_code, ops, writes, executed,
  param_line, param_no_expect_fail, param_memory_test,
  test_failed, test_warned, test_in_function, test_in_progress,
  test_expect_fail, test_skip, test_current_line,
  test_count, test_passed_count, test_warnings_count,
  ctx_stack, ctx_stack_index, ctx_stack_top,
  _memory, memory_ptr, memory_records, memory_records_set,
  memory_count_mallocs, memory_count_frees,
  memory_expect_error, memory_error,
  memory_malloc_fail, memory_malloc_forced_failures,
  incrementor, observed,
  pass_tests, declared, misuse, overrun, call, armed, run_no, first_trace,
  popped_in, popped

inputVars == <<file, argv>>
ctlVars == <<pc, ip, grp, prev_line, tmp_line, exit_code, ops, writes, executed>>
paramVars == <<param_line, param_no_expect_fail, param_memory_test>>
testVars == <<test_failed, test_warned, test_in_function, test_in_progress,
              test_expect_fail, test_skip, test_current_line,
              test_count, test_passed_count, test_warnings_count>>
ctxVars == <<ctx_stack, ctx_stack_index, ctx_stack_top>>
memVars == <<_memory, memory_ptr, memory_records, memory_records_set,
             memory_count_mallocs, memory_count_frees,
             memory_expect_error, memory_error,
             memory_malloc_fail, memory_malloc_forced_failures>>
\* the group function's local `int incrementor = 1;` and the value a test
\* body read from `++incrementor` (0: not read)
localVars == <<incrementor, observed>>
\* history: tests begun in this pass, directives executed in this pass,
\* misuse of the allocator by the body in this pass, records written one
\* past their payload, the last allocator call of the body with its
\* arguments and result, runs of _cspec_run_all, tests executed by the first
histVars == <<pass_tests, declared, misuse, overrun, call, armed>>
\* run, the group in which the requested context was popped, and the
\* contexts (by line) _cspec_context_end has popped in this group's run
runVars == <<run_no, first_trace, popped_in, popped>>
vars == <<inputVars, ctlVars, paramVars, testVars, ctxVars, memVars,
          localVars, histVars, runVars>>


(* ------------------------- walking the file --------------------------- *)
Line(i) ==
  LET starts == {s \in 1..i : file[s] = "S"} IN
  IF starts = {} THEN i
  ELSE i + 1 - (CHOOSE s \in starts : \A t \in starts : t <= s)

RECURSIVE NextTok(_)
\* the next line at or after i that calls into the runtime, or Len(file)+1
NextTok(i) ==
  IF i > Len(file) THEN Len(file) + 1
  ELSE IF file[i] = "G" THEN NextTok(i + 1)
  ELSE i

\* the "E" that closes the context opened at line i
Closer(i) ==
  CHOOSE j \in (i + 1)..Len(file) :
    /\ file[j] = "E"
    /\ DepthAt(file, j) = DepthAt(file, i) - 1
    /\ \A k \in (i + 1)..(j - 1) : DepthAt(file, k) >= DepthAt(file, i)

\* the "C" whose block the "E" at line j closes
Opener(j) == CHOOSE i \in 1..(j - 1) : file[i] = "C" /\ Closer(i) = j

AtFnEnd == IF ip > Len(file) THEN TRUE ELSE IsGroup(file[ip])

\* the describe() line of the group after the one at g, or 0
NextGroup(g) ==
  IF \E j \in (g + 1)..Len(file) : IsGroup(file[j])
  THEN CHOOSE j \in (g + 1)..Len(file) :
         IsGroup(file[j]) /\ \A k \in (g + 1)..(j - 1) : ~IsGroup(file[k])
  ELSE 0

(* ------------------------------- Init --------------------------------- *)
ROOT_DESC == 0 - 1
NULL_DESC == 0

Args == [line : 0..MaxLines, f : BOOLEAN, m : BOOLEAN]

\* the static initialisers of cspec.c
\* no allocator call made yet in this pass
NoCall == [op |-> "none", mem |-> NULL, size |-> 0, ret |-> NULL]

InitGlobals ==
  /\ pc = "start" /\ ip = 0 /\ grp = 0 /\ prev_line = 0 /\ tmp_line = 0
  /\ exit_code = 0 - 1 /\ ops = 0 /\ writes = 0 /\ executed = <<>>
  /\ param_line = 0 /\ param_no_expect_fail = FALSE /\ param_memory_test = TRUE
  /\ test_failed = FALSE /\ test_warned = FALSE /\ test_in_function = FALSE
  /\ test_in_progress = FALSE /\ test_expect_fail = FALSE /\ test_skip = FALSE
  /\ test_current_line = 0
  /\ test_count = 0 /\ test_passed_count = 0 /\ test_warnings_count = 0
  /\ ctx_stack = [i \in 0..(cspec_ctx_stack_size_max - 1) |->
                    [desc |-> IF i = 0 THEN ROOT_DESC ELSE NULL_DESC,
                     requested_context |-> FALSE]]
  /\ ctx_stack_index = 0 /\ ctx_stack_top = 0
  /\ _memory = [i \in 0..(memory_size_full - 1) |-> 0]
  /\ memory_ptr = 0 /\ memory_records = <<>> /\ memory_records_set = FALSE
  /\ memory_count_mallocs = 0 /\ memory_count_frees = 0
  /\ memory_expect_error = FALSE /\ memory_error = FALSE
  /\ memory_malloc_fail = M_NORMAL /\ memory_malloc_forced_failures = 0
  /\ incrementor = 0 /\ observed = 0
  /\ pass_tests = 0 /\ declared = {} /\ misuse = {} /\ overrun = {}
  /\ call = NoCall /\ armed = "never"
  /\ run_no = 1 /\ first_trace = [tests |-> <<>>, code |-> 0]
  /\ popped_in = 0 /\ popped = {}

Init ==
  /\ file \in Files
  /\ argv \in Args
  /\ InitGlobals


(* --------------------------- the sandbox ------------------------------ *)
\* _memory[i] for an offset p from `memory`
Mem(p) == _memory[p + memory_size_barrier]

\* cspec_memset(memory + p, c, n) applied to the arena m
MemSet(m, p, c, n) ==
  [i \in DOMAIN m |->
     IF i >= p + memory_size_barrier /\ i < p + memory_size_barrier + n
     THEN c ELSE m[i]]

\* a fence check that reads the leading fence only
memory_check_fence_leading(m, record) ==
  \A i \in 0..(memory_size_fence - 1) :
    m[record.block + i + memory_size_barrier] = BYTE_b

\* memory_check_fence(record), reading the arena m
memory_check_fence(m, record) ==
  \A i \in 0..(memory_size_fence - 1) :
    /\ m[record.block + i + memory_size_barrier] = BYTE_b
    /\ m[record.block + i + memory_size_fence + record.size
         + memory_size_barrier] = BYTE_e

\* a memory_test_reset that leaves the arena, the bump pointer and the
\* record table as the last pass left them
memory_test_reset_flags_only ==
  IF ~param_memory_test
  THEN /\ memory_records_set' = FALSE
       /\ memory_records' = <<>>
       /\ UNCHANGED <<_memory, memory_ptr, memory_count_mallocs,
                      memory_count_frees, memory_expect_error, memory_error,
                      memory_malloc_fail, memory_malloc_forced_failures>>
  ELSE /\ memory_expect_error' = FALSE
       /\ memory_malloc_forced_failures' = 0
       /\ memory_malloc_fail' = M_NORMAL
       /\ memory_error' = FALSE
       /\ memory_count_mallocs' = 0
       /\ memory_count_frees' = 0
       /\ memory_records_set' = TRUE
       /\ IF memory_records_set
          THEN UNCHANGED <<_memory, memory_ptr, memory_records>>
          ELSE /\ memory_records' = <<>>
               /\ memory_ptr' = 0
               /\ _memory' = [i \in 0..(memory_size_full - 1) |->
                                IF i < memory_size_barrier
                                   \/ i >= memory_size_barrier + memory_size_max
                                THEN BYTE_FF ELSE BYTE_X]

\* memory_test_reset(param_memory_test)
memory_test_reset ==
  IF ~param_memory_test
  THEN /\ memory_records_set' = FALSE
       /\ memory_records' = <<>>
       /\ UNCHANGED <<_memory, memory_ptr, memory_count_mallocs,
                      memory_count_frees, memory_expect_error, memory_error,
                      memory_malloc_fail, memory_malloc_forced_failures>>
  ELSE /\ memory_expect_error' = FALSE
       /\ memory_malloc_forced_failures' = 0
       /\ memory_malloc_fail' = M_NORMAL
       /\ memory_error' = FALSE
       /\ memory_count_mallocs' = 0
       /\ memory_count_frees' = 0
       /\ memory_records' = <<>>
       /\ memory_ptr' = 0
       /\ memory_records_set' = TRUE
       /\ _memory' = [i \in 0..(memory_size_full - 1) |->
                        IF i < memory_size_barrier
                           \/ i >= memory_size_barrier + memory_size_max
                        THEN BYTE_FF ELSE BYTE_X]

\* final checks that report a forced failure that never fired as a memory
\* error
FinalChecksMemOrDesign ==
  \/ \E i \in 1..Len(memory_records) :
       LET record == memory_records[i] IN
         \/ ~memory_check_fence(_memory, record)
         \/ IF record.is_free
            THEN \E j \in 0..(record.size - 1) :
                   Mem(record.block + memory_size_fence + j) # BYTE_F
            ELSE TRUE
  \/ \E i \in 0..(memory_size_barrier - 1) :
       \/ _memory[i] # BYTE_FF
       \/ _memory[i + memory_size_barrier + memory_size_max] # BYTE_FF
  \/ memory_count_mallocs # memory_count_frees
  \/ memory_malloc_fail >= M_WAS_EXPECTED /\ memory_malloc_forced_failures = 0

\* final checks without the check of the forced-failure request
FinalChecksNoDesignCheck == FALSE

\* final checks that look at neither the freed marks nor the two counters
FinalChecksNoLeakCheck ==
  \/ \E i \in 1..Len(memory_records) :
       LET record == memory_records[i] IN
         \/ ~memory_check_fence(_memory, record)
         \/ \E j \in 0..(record.size - 1) :
              record.is_free /\ Mem(record.block + memory_size_fence + j) # BYTE_F
  \/ \E i \in 0..(memory_size_barrier - 1) :
       \/ _memory[i] # BYTE_FF
       \/ _memory[i + memory_size_barrier + memory_size_max] # BYTE_FF

\* final checks that do not read the payload of freed blocks
FinalChecksNoStaleCheck ==
  \/ \E i \in 1..Len(memory_records) :
       \/ ~memory_check_fence(_memory, memory_records[i])
       \/ ~memory_records[i].is_free
  \/ \E i \in 0..(memory_size_barrier - 1) :
       \/ _memory[i] # BYTE_FF
       \/ _memory[i + memory_size_barrier + memory_size_max] # BYTE_FF
  \/ memory_count_mallocs # memory_count_frees

\* memory_final_checks: does some check call _cspec_error_mem ?
FinalChecksMemError ==
  \/ \E i \in 1..Len(memory_records) :
       LET record == memory_records[i] IN
         \/ ~memory_check_fence(_memory, record)
         \/ IF record.is_free
            THEN \E j \in 0..(record.size - 1) :
                   Mem(record.block + memory_size_fence + j) # BYTE_F
            ELSE TRUE
  \/ \E i \in 0..(memory_size_barrier - 1) :
       \/ _memory[i] # BYTE_FF
       \/ _memory[i + memory_size_barrier + memory_size_max] # BYTE_FF
  \/ memory_count_mallocs # memory_count_frees

\* memory_final_checks: does the last check call _cspec_error_fn ?
FinalChecksDesignError ==
  memory_malloc_fail >= M_WAS_EXPECTED /\ memory_malloc_forced_failures = 0

(* ------------------------ the context stack --------------------------- *)
\* _cspec_warn_fn(line, ...) as called on a full context stack, after
\* test_current_line was set to line: the guard lets it through
WarnCapacity ==
  /\ test_warned' = TRUE
  /\ test_warnings_count' =
       IF test_warned THEN test_warnings_count ELSE test_warnings_count + 1

\* _cspec_context_begin without the test of the stack's capacity
ContextBeginNoCapacity(line) ==
  IF test_in_progress THEN "false"
  ELSE IF /\ ctx_stack_index < ctx_stack_top
          /\ ctx_stack[ctx_stack_index + 1].desc = line THEN "replay"
  ELSE IF ctx_stack[ctx_stack_index].desc = line THEN "closing"
  ELSE IF test_current_line > line THEN "false"
  ELSE IF ctx_stack_index # ctx_stack_top THEN "abort"
  ELSE "push"

\* _cspec_context_begin without the test_in_progress early return
ContextBeginIgnoresProgress(line) ==
  IF /\ ctx_stack_index < ctx_stack_top
     /\ ctx_stack[ctx_stack_index + 1].desc = line THEN "replay"
  ELSE IF ctx_stack[ctx_stack_index].desc = line THEN "closing"
  ELSE IF test_current_line > line THEN "false"
  ELSE IF ctx_stack_index # ctx_stack_top THEN "abort"
  ELSE IF ctx_stack_top + 1 >= cspec_ctx_stack_size_max THEN "full"
  ELSE "push"

\* _cspec_context_begin without the test of the cursor against the line
ContextBeginNoPastCheck(line) ==
  IF test_in_progress THEN "false"
  ELSE IF /\ ctx_stack_index < ctx_stack_top
          /\ ctx_stack[ctx_stack_index + 1].desc = line THEN "replay"
  ELSE IF ctx_stack[ctx_stack_index].desc = line THEN "closing"
  ELSE IF ctx_stack_index # ctx_stack_top THEN "abort"
  ELSE IF ctx_stack_top + 1 >= cspec_ctx_stack_size_max THEN "full"
  ELSE "push"

\* _cspec_context_begin(line, desc); the description of a context holds its
\* line, so the pointer comparison of descriptions compares lines.
\* ret: the value returned, or "abort" when the assert fails.
ContextBeginResult(line) ==
  IF test_in_progress THEN "false"
  ELSE IF /\ ctx_stack_index < ctx_stack_top
          /\ ctx_stack[ctx_stack_index + 1].desc = line THEN "replay"
  ELSE IF ctx_stack[ctx_stack_index].desc = line THEN "closing"
  ELSE IF test_current_line > line THEN "false"
  ELSE IF ctx_stack_index # ctx_stack_top THEN "abort"
  ELSE IF ctx_stack_top + 1 >= cspec_ctx_stack_size_max THEN "full"
  ELSE "push"

_cspec_context_begin(line) ==
  LET r == ContextBeginResult(line) IN
  /\ CASE r = "replay" ->
            /\ ctx_stack_index' = ctx_stack_index + 1
            /\ UNCHANGED <<ctx_stack, ctx_stack_top, param_line,
                           test_current_line, test_warned, test_warnings_count>>
       [] r \in {"full", "push"} ->
            /\ param_line' = IF line = param_line THEN 0 ELSE param_line
            /\ test_current_line' = line
            /\ IF r = "full"
               THEN /\ WarnCapacity
                    /\ UNCHANGED <<ctx_stack, ctx_stack_index, ctx_stack_top>>
               ELSE /\ ctx_stack_top' = ctx_stack_top + 1
                    /\ ctx_stack_index' = ctx_stack_top + 1
                    /\ ctx_stack' = [ctx_stack EXCEPT ![ctx_stack_top + 1] =
                         [desc |-> line,
                          requested_context |-> (line = param_line)]]
                    /\ UNCHANGED <<test_warned, test_warnings_count>>
       [] OTHER ->
            UNCHANGED <<ctx_stack, ctx_stack_index, ctx_stack_top, param_line,
                        test_current_line, test_warned, test_warnings_count>>

ContextBeginTrue(line) == ContextBeginResult(line) \in {"replay", "closing", "push"}

\* a _cspec_context_end that leaves the cursor on the context's own line
ContextEndLineSame(line) == line

\* the line _cspec_context_end(line) leaves in test_current_line
ContextEndLine(line) == line + 1


(* --------------------- the sandboxed allocator ------------------------ *)
\* _cspec_error_mem: records the error only while a test is in progress
ErrorMemFlag == IF test_in_progress THEN TRUE ELSE memory_error

\* what the slot memory_records[memory_records_size] may hold before
\* cspec_malloc writes it (never initialised, or left by an earlier pass)
GarbageRecords == {[size |-> sz, block |-> 0, is_free |-> fr] :
                     sz \in 0..1, fr \in BOOLEAN}

\* a bump that leaves no room for the trailing fence
MallocNextOverlap(size) == memory_ptr + memory_size_fence + size

\* size_t arithmetic: values are taken modulo 2^SizeBits
SizeModulus == 2 ^ SizeBits

\* size_t next = memory_ptr + memory_size_fence*2 + size
MallocNext(size) == (memory_ptr + memory_size_fence * 2 + size) % SizeModulus

\* is the fence that precedes memory_ptr intact ?
PrecedingFenceOk ==
  \/ memory_ptr = 0
  \/ \A fence \in (memory_ptr - memory_size_fence)..(memory_ptr - 1) :
       Mem(fence) = BYTE_e

\* cspec_malloc without the forced-failure branch
MallocPathNoForced(size) ==
  IF size = 0 THEN "zero"
  ELSE IF MallocNext(size) >= memory_size_max - memory_size_fence * 2
       THEN "nospace"
  ELSE IF ~PrecedingFenceOk THEN "prevfence"
  ELSE "ok"

\* the path cspec_malloc(size) takes in sandbox mode
MallocPath(size) ==
  IF size = 0 THEN "zero"
  ELSE IF memory_malloc_fail >= M_FAIL_ONCE THEN "forced"
  ELSE IF MallocNext(size) >= memory_size_max - memory_size_fence * 2
       THEN "nospace"
  ELSE IF ~PrecedingFenceOk THEN "prevfence"
  ELSE "ok"

\* does cspec_malloc(size) store past the end of _memory ? The request
\* passed the capacity test, yet the block it writes ends there (undefined
\* behaviour)
MallocWild(size) ==
  /\ MallocPath(size) = "ok"
  /\ memory_ptr + memory_size_fence * 2 + size
       > memory_size_max + memory_size_barrier

\* the pointer cspec_malloc(size) returns
MallocReturn(size) ==
  IF MallocPath(size) = "ok" THEN memory_ptr + memory_size_fence ELSE NULL

\* the arena after cspec_malloc(size) wrote the new block
MallocFill(size) ==
  MemSet(MemSet(MemSet(_memory, memory_ptr, BYTE_b, memory_size_fence),
                memory_ptr + memory_size_fence, BYTE_N, size),
         memory_ptr + memory_size_fence + size, BYTE_e, memory_size_fence)

\* cspec_malloc(size) with memory_records set and test_in_function
cspec_malloc(size) ==
  LET path == MallocPath(size) IN
  CASE path = "zero" -> UNCHANGED memVars
    [] path = "forced" ->
         /\ memory_malloc_fail' =
              IF memory_malloc_fail = M_FAIL_ONCE THEN M_WAS_EXPECTED
              ELSE memory_malloc_fail
         /\ memory_malloc_forced_failures' = memory_malloc_forced_failures + 1
         /\ UNCHANGED <<_memory, memory_ptr, memory_records, memory_records_set,
                        memory_count_mallocs, memory_count_frees,
                        memory_expect_error, memory_error>>
    [] path = "nospace" ->
         /\ memory_expect_error' = FALSE
         /\ memory_error' = ErrorMemFlag
         /\ UNCHANGED <<_memory, memory_ptr, memory_records, memory_records_set,
                        memory_count_mallocs, memory_count_frees,
                        memory_malloc_fail, memory_malloc_forced_failures>>
    [] path = "prevfence" ->
         /\ memory_count_mallocs' = memory_count_mallocs + 1
         /\ \E g \in GarbageRecords : memory_records' = Append(memory_records, g)
         /\ memory_error' = ErrorMemFlag
         /\ UNCHANGED <<_memory, memory_ptr, memory_records_set,
                        memory_count_frees, memory_expect_error,
                        memory_malloc_fail, memory_malloc_forced_failures>>
    [] OTHER ->
         /\ memory_count_mallocs' = memory_count_mallocs + 1
         /\ memory_records' = Append(memory_records,
              [size |-> size, block |-> memory_ptr, is_free |-> FALSE])
         /\ _memory' = MallocFill(size)
         /\ memory_ptr' = MallocNext(size)
         /\ UNCHANGED <<memory_records_set, memory_count_frees,
                        memory_expect_error, memory_error,
                        memory_malloc_fail, memory_malloc_forced_failures>>

RECURSIVE bsearch(_, _, _)
\* bsearch(mem, memory_records, ..., memory_record_compare) over the
\* slots lo+1..hi; the index of the record found, or 0
bsearch(mem, lo, hi) ==
  IF lo >= hi THEN 0
  ELSE LET mid == (lo + hi) \div 2
           record_block == memory_records[mid + 1].block + memory_size_fence
       IN IF mem > record_block THEN bsearch(mem, mid + 1, hi)
          ELSE IF mem < record_block THEN bsearch(mem, lo, mid)
          ELSE mid + 1

\* the path cspec_free(mem) takes in sandbox mode
FreePath(mem) ==
  IF mem = NULL THEN "null"
  ELSE IF mem < 0 \/ mem >= memory_size_max THEN "bounds"
  ELSE IF bsearch(mem, 0, Len(memory_records)) = 0 THEN "unknown"
  ELSE "record"

\* a cspec_free that does not look at is_free
FreeReportsErrorNoDouble(mem) ==
  LET path == FreePath(mem) IN
  \/ path \in {"bounds", "unknown"}
  \/ /\ path = "record"
     /\ ~memory_check_fence(_memory,
           memory_records[bsearch(mem, 0, Len(memory_records))])

\* a cspec_free that returns silently on a pointer it has no record of
FreeReportsErrorKnownOnly(mem) ==
  LET path == FreePath(mem) IN
  /\ path = "record"
  /\ LET record == memory_records[bsearch(mem, 0, Len(memory_records))] IN
       record.is_free \/ ~memory_check_fence(_memory, record)

\* does cspec_free(mem) call _cspec_error_mem ?
FreeReportsError(mem) ==
  LET path == FreePath(mem) IN
  \/ path \in {"bounds", "unknown"}
  \/ /\ path = "record"
     /\ LET record == memory_records[bsearch(mem, 0, Len(memory_records))] IN
          record.is_free \/ ~memory_check_fence(_memory, record)

\* a cspec_free that counts free(NULL) as well
cspec_free_counts_null(mem) ==
  /\ memory_error' = IF FreeReportsError(mem) THEN ErrorMemFlag ELSE memory_error
  /\ IF FreePath(mem) = "record"
     THEN LET i == bsearch(mem, 0, Len(memory_records))
              record == memory_records[i]
          IN /\ _memory' = MemSet(_memory, record.block + memory_size_fence,
                                  BYTE_F, record.size)
             /\ memory_records' = [memory_records EXCEPT ![i].is_free = TRUE]
             /\ memory_count_frees' = memory_count_frees + 1
     ELSE /\ memory_count_frees' =
               IF mem = NULL THEN memory_count_frees + 1 ELSE memory_count_frees
          /\ UNCHANGED <<_memory, memory_records>>
  /\ UNCHANGED <<memory_ptr, memory_records_set, memory_count_mallocs,
                 memory_expect_error, memory_malloc_fail,
                 memory_malloc_forced_failures>>

\* a cspec_free that marks the record and leaves memory_count_frees alone
cspec_free_uncounted(mem) ==
  /\ memory_error' = IF FreeReportsError(mem) THEN ErrorMemFlag ELSE memory_error
  /\ IF FreePath(mem) = "record"
     THEN LET i == bsearch(mem, 0, Len(memory_records))
              record == memory_records[i]
          IN /\ _memory' = MemSet(_memory, record.block + memory_size_fence,
                                  BYTE_F, record.size)
             /\ memory_records' = [memory_records EXCEPT ![i].is_free = TRUE]
     ELSE UNCHANGED <<_memory, memory_records>>
  /\ UNCHANGED <<memory_ptr, memory_records_set, memory_count_mallocs,
                 memory_count_frees,
                 memory_expect_error, memory_malloc_fail,
                 memory_malloc_forced_failures>>

\* cspec_free(mem) with memory_records set and test_in_function
cspec_free(mem) ==
  /\ memory_error' = IF FreeReportsError(mem) THEN ErrorMemFlag ELSE memory_error
  /\ IF FreePath(mem) = "record"
     THEN LET i == bsearch(mem, 0, Len(memory_records))
              record == memory_records[i]
          IN /\ _memory' = MemSet(_memory, record.block + memory_size_fence,
                                  BYTE_F, record.size)
             /\ memory_records' = [memory_records EXCEPT ![i].is_free = TRUE]
             /\ memory_count_frees' = memory_count_frees + 1
     ELSE UNCHANGED <<_memory, memory_records, memory_count_frees>>
  /\ UNCHANGED <<memory_ptr, memory_records_set, memory_count_mallocs,
                 memory_expect_error, memory_malloc_fail,
                 memory_malloc_forced_failures>>


\* ct * sel as cspec_calloc computes it, in size_t
CallocSize(ct, sel) == (ct * sel) % SizeModulus

\* cspec_calloc(ct, sel) with memory_records set and test_in_function:
\* cspec_malloc(ct * sel), and the payload zeroed when it is not NULL
cspec_calloc(ct, sel) ==
  LET size == CallocSize(ct, sel) IN
  IF MallocPath(size) = "ok"
  THEN /\ memory_count_mallocs' = memory_count_mallocs + 1
       /\ memory_records' = Append(memory_records,
            [size |-> size, block |-> memory_ptr, is_free |-> FALSE])
       /\ _memory' = MemSet(MallocFill(size),
                            memory_ptr + memory_size_fence, 0, size)
       /\ memory_ptr' = MallocNext(size)
       /\ UNCHANGED <<memory_records_set, memory_count_frees,
                      memory_expect_error, memory_error,
                      memory_malloc_fail, memory_malloc_forced_failures>>
  ELSE cspec_malloc(size)

RECURSIVE bsearchIn(_, _, _, _)
\* bsearch over the slots lo+1..hi of the table recs
bsearchIn(recs, mem, lo, hi) ==
  IF lo >= hi THEN 0
  ELSE LET mid == (lo + hi) \div 2
           record_block == recs[mid + 1].block + memory_size_fence
       IN IF mem > record_block THEN bsearchIn(recs, mem, mid + 1, hi)
          ELSE IF mem < record_block THEN bsearchIn(recs, mem, lo, mid)
          ELSE mid + 1

\* cspec_memcpy(memory + dst, memory + src, n) applied to the arena m
MemCopy(m, dst, src, n) ==
  [i \in DOMAIN m |->
     IF i >= dst + memory_size_barrier /\ i < dst + memory_size_barrier + n
     THEN m[i - dst + src] ELSE m[i]]

\* the last record of the table: `record` in cspec_realloc
LastRecord == memory_records[Len(memory_records)]

\* the path cspec_realloc(mem, nsize) takes in sandbox mode; "wild": the
\* in-place branch stores past the end of _memory (undefined behaviour)
ReallocPath(mem, nsize) ==
  IF mem = NULL THEN "null"
  ELSE IF Len(memory_records) = 0 THEN "none"
  ELSE IF memory_malloc_fail >= M_FAIL_ONCE THEN "forced"
  ELSE IF LastRecord.block + memory_size_fence # mem THEN "copy"
  ELSE IF ~memory_check_fence(_memory, LastRecord) THEN "fence"
  ELSE IF nsize = LastRecord.size THEN "same"
  ELSE IF LastRecord.block + memory_size_fence + nsize + memory_size_fence
            > memory_size_max + memory_size_barrier THEN "wild"
  ELSE IF nsize > LastRecord.size THEN "grow"
  ELSE "shrink"

\* does cspec_realloc(mem, nsize) store past the end of _memory ? Either
\* the in-place branch moves the fence there, or the copy of the last
\* block into the new one ends there
ReallocWild(mem, nsize) ==
  \/ ReallocPath(mem, nsize) = "wild"
  \/ /\ ReallocPath(mem, nsize) \in {"null", "none", "copy"}
     /\ MallocWild(nsize)
  \/ /\ ReallocPath(mem, nsize) = "copy"
     /\ MallocPath(nsize) = "ok"
     /\ memory_ptr + memory_size_fence + LastRecord.size + memory_size_fence * 2
          > memory_size_max + memory_size_barrier

\* the pointer cspec_realloc(mem, nsize) returns
ReallocReturn(mem, nsize) ==
  LET path == ReallocPath(mem, nsize) IN
  IF path \in {"null", "none", "copy"} THEN MallocReturn(nsize)
  ELSE IF path \in {"same", "grow", "shrink"} THEN mem
  ELSE NULL

\* the arena after the in-place branch of cspec_realloc resized the last
\* block to nsize
ReallocFill(nsize) ==
  LET block_start == LastRecord.block + memory_size_fence
      fenced == MemSet(_memory, block_start + nsize, BYTE_e, memory_size_fence)
  IN IF nsize > LastRecord.size
     THEN MemSet(fenced, block_start + LastRecord.size, BYTE_N,
                 nsize - LastRecord.size)
     ELSE MemSet(fenced, block_start + nsize + memory_size_fence, BYTE_X,
                 LastRecord.size - nsize)

\* cspec_realloc, last branch: cspec_malloc(nsize), the copy of
\* record->size + memory_size_fence * 2 bytes from record->block, and
\* cspec_free(record->block + memory_size_fence), record being the last
\* record of the table before the call
ReallocCopy(nsize) ==
  LET recs1 == Append(memory_records,
                 [size |-> nsize, block |-> memory_ptr, is_free |-> FALSE])
      ret == memory_ptr + memory_size_fence
      m2 == MemCopy(MallocFill(nsize), ret, LastRecord.block,
                    LastRecord.size + memory_size_fence * 2)
      p == LastRecord.block + memory_size_fence
      idx == IF p < 0 \/ p >= memory_size_max THEN 0
             ELSE bsearchIn(recs1, p, 0, Len(recs1))
  IN /\ memory_count_mallocs' = memory_count_mallocs + 1
     /\ memory_ptr' = MallocNext(nsize)
     /\ IF idx = 0
        THEN /\ memory_records' = recs1
             /\ _memory' = m2
             /\ memory_error' = ErrorMemFlag
             /\ UNCHANGED memory_count_frees
        ELSE /\ memory_records' = [recs1 EXCEPT ![idx].is_free = TRUE]
             /\ _memory' = MemSet(m2, recs1[idx].block + memory_size_fence,
                                  BYTE_F, recs1[idx].size)
             /\ memory_error' =
                  IF recs1[idx].is_free \/ ~memory_check_fence(m2, recs1[idx])
                  THEN ErrorMemFlag ELSE memory_error
             /\ memory_count_frees' = memory_count_frees + 1
     /\ UNCHANGED <<memory_records_set, memory_expect_error,
                    memory_malloc_fail, memory_malloc_forced_failures>>

\* cspec_malloc(size) called by cspec_realloc next to a _cspec_error_mem
\* call of cspec_realloc itself, for a request that is not served
ReallocMallocError(size) ==
  LET path == MallocPath(size) IN
  /\ memory_error' = ErrorMemFlag
  /\ memory_expect_error' =
       IF path = "nospace" THEN FALSE ELSE memory_expect_error
  /\ memory_malloc_fail' =
       IF path = "forced" /\ memory_malloc_fail = M_FAIL_ONCE
       THEN M_WAS_EXPECTED ELSE memory_malloc_fail
  /\ memory_malloc_forced_failures' =
       IF path = "forced" THEN memory_malloc_forced_failures + 1
       ELSE memory_malloc_forced_failures
  /\ memory_count_mallocs' =
       IF path = "prevfence" THEN memory_count_mallocs + 1
       ELSE memory_count_mallocs
  /\ IF path = "prevfence"
     THEN \E g \in GarbageRecords : memory_records' = Append(memory_records, g)
     ELSE UNCHANGED memory_records
  /\ UNCHANGED <<_memory, memory_ptr, memory_records_set, memory_count_frees>>

\* cspec_realloc(mem, nsize) with memory_records set and test_in_function,
\* on every path but "wild"
cspec_realloc(mem, nsize) ==
  LET path == ReallocPath(mem, nsize) IN
  CASE path = "null" -> cspec_malloc(nsize)
    [] path = "none" ->
         IF MallocPath(nsize) = "ok"
         THEN /\ memory_error' = ErrorMemFlag
              /\ memory_count_mallocs' = memory_count_mallocs + 1
              /\ memory_records' = Append(memory_records,
                   [size |-> nsize, block |-> memory_ptr, is_free |-> FALSE])
              /\ _memory' = MallocFill(nsize)
              /\ memory_ptr' = MallocNext(nsize)
              /\ UNCHANGED <<memory_records_set, memory_count_frees,
                             memory_expect_error, memory_malloc_fail,
                             memory_malloc_forced_failures>>
         ELSE ReallocMallocError(nsize)
    [] path = "forced" ->
         /\ memory_malloc_fail' =
              IF memory_malloc_fail = M_FAIL_ONCE THEN M_WAS_EXPECTED
              ELSE memory_malloc_fail
         /\ memory_malloc_forced_failures' = memory_malloc_forced_failures + 1
         /\ UNCHANGED <<_memory, memory_ptr, memory_records, memory_records_set,
                        memory_count_mallocs, memory_count_frees,
                        memory_expect_error, memory_error>>
    [] path = "fence" ->
         /\ memory_error' = ErrorMemFlag
         /\ UNCHANGED <<_memory, memory_ptr, memory_records, memory_records_set,
                        memory_count_mallocs, memory_count_frees,
                        memory_expect_error, memory_malloc_fail,
                        memory_malloc_forced_failures>>
    [] path = "same" -> UNCHANGED memVars
    [] path \in {"grow", "shrink"} ->
         /\ _memory' = ReallocFill(nsize)
         /\ memory_records' =
              [memory_records EXCEPT ![Len(memory_records)].size = nsize]
         /\ memory_ptr' = LastRecord.block + memory_size_fence + nsize
                            + memory_size_fence
         /\ UNCHANGED <<memory_records_set, memory_count_mallocs,
                        memory_count_frees, memory_expect_error, memory_error,
                        memory_malloc_fail, memory_malloc_forced_failures>>
    [] OTHER ->
         IF MallocPath(nsize) = "ok" THEN ReallocCopy(nsize)
         ELSE ReallocMallocError(nsize)

(* ------------------------- the test engine ---------------------------- *)
\* _cspec_begin without the test_in_progress early return
BeginSkipsNoProgressCheck(line) == test_current_line >= line

\* _cspec_begin with a cursor test that lets the test on the cursor run
BeginSkipsPastOnly(line) == test_in_progress \/ test_current_line > line

\* _cspec_begin: the two early returns
BeginSkips(line) == test_in_progress \/ test_current_line >= line

\* a line filter that lets every test run
BeginRunsUnfiltered(line) == ~test_skip

\* _cspec_begin: past the early returns, does the test enter execution ?
BeginRuns(line) == (param_line = 0 \/ param_line = line) /\ ~test_skip

\* the pass condition with the two dimensions coalesced into one flag each
TestPassesCoalesced(failed, expect_fail, mem_error, mem_expect) ==
  (~(failed \/ mem_error)) # (expect_fail \/ mem_expect)

\* the pass condition without the memory dimension
TestPassesNoMemory(failed, expect_fail, mem_error, mem_expect) ==
  (~failed) # expect_fail

\* the pass condition with the memory expectation ignored
TestPassesMemStrict(failed, expect_fail, mem_error, mem_expect) ==
  /\ ((~failed) # expect_fail)
  /\ ~mem_error

\* _cspec_end: the pass condition, (!failed ^ expect) && (!mem ^ mem_expect)
TestPasses(failed, expect_fail, mem_error, mem_expect) ==
  /\ ((~failed) # expect_fail)
  /\ ((~mem_error) # mem_expect)

\* _cspec_end: are the final memory checks run ?
RunsFinalChecks == ~test_failed /\ param_memory_test

\* the flags _cspec_end compares, after memory_final_checks
FailedAtEnd == test_failed \/ (RunsFinalChecks /\ FinalChecksDesignError)
MemErrorAtEnd == memory_error \/ (RunsFinalChecks /\ FinalChecksMemError)

\* _cspec_end() for a test in progress
_cspec_end ==
  LET passes == TestPasses(FailedAtEnd, test_expect_fail,
                           MemErrorAtEnd, memory_expect_error)
  IN /\ memory_error' = MemErrorAtEnd
     /\ test_count' = test_count + 1
     /\ test_passed_count' = IF passes THEN test_passed_count + 1
                             ELSE test_passed_count
     /\ test_expect_fail' = IF passes THEN test_expect_fail ELSE FALSE
     /\ test_failed' = IF passes THEN FailedAtEnd
                       ELSE (FailedAtEnd \/ test_expect_fail
                             \/ memory_expect_error)
     /\ test_in_progress' = FALSE

\* a return value that counts every test
RunAllReturnsCount == test_count

\* the value _cspec_run_all returns
RunAllReturn == test_count - test_passed_count

(* ----------------------------- actions -------------------------------- *)
\* _cspec_run_all up to the first group of the suite: parameter defaults,
\* process_args, before_run, before_suite
RunAll ==
  /\ pc = "start"
  /\ param_no_expect_fail' = argv.f
  /\ param_memory_test' = ~argv.m
  /\ param_line' = argv.line
  /\ test_count' = 0 /\ test_passed_count' = 0 /\ test_warnings_count' = 0
  /\ grp' = 1
  /\ pc' = "group"
  /\ UNCHANGED <<inputVars, localVars, histVars, runVars,
                 ip, prev_line, tmp_line, exit_code, ops, writes,
                 executed, test_failed, test_warned, test_in_function,
                 test_in_progress, test_expect_fail, test_skip,
                 test_current_line, ctxVars, memVars>>

\* cspec_run_suite: one iteration of the group loop up to before_fn
GroupStart ==
  /\ pc = "group"
  /\ tmp_line' = param_line
  /\ param_line' = IF Line(grp) = param_line THEN 0 ELSE param_line
  /\ test_current_line' = 0
  /\ pc' = IF ctx_stack_top = 0 THEN "pass" ELSE "abort"
  /\ popped' = {}
  /\ UNCHANGED <<inputVars, localVars, histVars, run_no, first_trace, popped_in,
                 ip, grp, prev_line, exit_code, ops, writes,
                 executed, param_no_expect_fail, param_memory_test,
                 test_failed, test_warned, test_in_function, test_in_progress,
                 test_expect_fail, test_skip, test_count, test_passed_count,
                 test_warnings_count, ctxVars, memVars>>

\* a before_pass that leaves test_expect_fail as the last pass left it
PassExpectFailKept == test_expect_fail

\* before_pass: test_expect_fail = FALSE
PassExpectFail == FALSE

\* process_function: before_pass and the call of the group function
BeforePass ==
  /\ pc = "pass"
  /\ ctx_stack_index' = 0
  /\ test_expect_fail' = PassExpectFail
  /\ test_skip' = FALSE
  /\ memory_test_reset
  /\ test_failed' = FALSE
  /\ test_warned' = FALSE
  /\ prev_line' = test_current_line
  /\ test_in_function' = TRUE
  /\ ip' = NextTok(grp + 1)
  /\ pc' = "fn"
  /\ UNCHANGED <<inputVars, runVars,
                 grp, tmp_line, exit_code, ops, writes, executed,
                 paramVars, test_in_progress, test_current_line, test_count,
                 test_passed_count, test_warnings_count, ctx_stack,
                 ctx_stack_top>>
  /\ incrementor' = 1 /\ observed' = 0
  /\ pass_tests' = 0 /\ declared' = {} /\ misuse' = {} /\ overrun' = {}
  /\ call' = NoCall /\ armed' = "never"

\* the _test() loop header: _cspec_begin(line, desc)
TestBegin(budget) ==
  /\ pc = "fn" /\ ~AtFnEnd /\ file[ip] = "T"
  /\ IF BeginSkips(Line(ip))
     THEN /\ UNCHANGED <<test_current_line, test_in_progress, pc, ops, writes,
                         executed>>
          /\ ip' = NextTok(ip + 1)
     ELSE /\ test_current_line' = Line(ip)
          /\ IF BeginRuns(Line(ip))
             THEN /\ test_in_progress' = TRUE
                  /\ pc' = "body"
                  /\ ops' = budget
                  /\ writes' = MaxWrites
                  /\ executed' = Append(executed, Line(ip))
                  /\ ip' = ip
             ELSE /\ test_in_progress' = FALSE
                  /\ ip' = NextTok(ip + 1)
                  /\ UNCHANGED <<pc, ops, writes, executed>>
  /\ UNCHANGED <<inputVars, incrementor, declared, misuse, overrun, call,
                 armed,
                 runVars,
                 grp, prev_line, tmp_line, exit_code, paramVars,
                 test_failed, test_warned, test_in_function, test_expect_fail,
                 test_skip, test_count, test_passed_count, test_warnings_count,
                 ctxVars, memVars>>
  /\ IF BeginRuns(Line(ip)) /\ ~BeginSkips(Line(ip))
     THEN observed' = 0 /\ pass_tests' = pass_tests + 1
     ELSE UNCHANGED <<observed, pass_tests>>

\* the _context() loop header, first iteration
ContextEnter ==
  /\ pc = "fn" /\ ~AtFnEnd /\ file[ip] = "C"
  /\ _cspec_context_begin(Line(ip))
  /\ IF ContextBeginResult(Line(ip)) = "abort"
     THEN pc' = "abort" /\ ip' = ip
     ELSE /\ pc' = pc
          /\ ip' = IF ContextBeginTrue(Line(ip)) THEN NextTok(ip + 1)
                   ELSE NextTok(Closer(ip) + 1)
  /\ UNCHANGED <<inputVars, localVars, histVars, runVars,
                 grp, prev_line, tmp_line, exit_code, ops, writes,
                 executed, param_no_expect_fail, param_memory_test,
                 test_failed, test_in_function, test_in_progress,
                 test_expect_fail, test_skip, test_count, test_passed_count,
                 memVars>>

\* the _context() loop header, second iteration, at the end of the block
ContextReenter ==
  /\ pc = "fn" /\ ~AtFnEnd /\ file[ip] = "E"
  /\ _cspec_context_begin(Line(Opener(ip)))
  /\ IF ContextBeginResult(Line(Opener(ip))) = "abort"
     THEN pc' = "abort" /\ ip' = ip
     ELSE IF ContextBeginTrue(Line(Opener(ip)))
     THEN pc' = "ctxend" /\ ip' = ip
     ELSE pc' = pc /\ ip' = NextTok(ip + 1)
  /\ UNCHANGED <<inputVars, localVars, histVars, runVars,
                 grp, prev_line, tmp_line, exit_code, ops, writes,
                 executed, param_no_expect_fail, param_memory_test,
                 test_failed, test_in_function, test_in_progress,
                 test_expect_fail, test_skip, test_count, test_passed_count,
                 memVars>>

\* _cspec_context_end(line), and the return it makes the group function take
ContextEnd ==
  /\ pc = "ctxend"
  /\ IF test_in_progress
     THEN /\ pc' = "fn" /\ ip' = NextTok(ip + 1)
          /\ UNCHANGED <<test_current_line, param_line, ctxVars,
                         test_in_function, popped_in, popped>>
     ELSE /\ test_current_line' = ContextEndLine(Line(Opener(ip)))
          /\ param_line' = IF ctx_stack[ctx_stack_top].requested_context
                           THEN 0 - 1 ELSE param_line
          /\ popped_in' = IF ctx_stack[ctx_stack_top].requested_context
                          THEN grp ELSE popped_in
          /\ IF ctx_stack_top = 0
             THEN /\ pc' = "abort"
                  /\ UNCHANGED <<ctxVars, test_in_function, popped>>
             ELSE /\ ctx_stack_top' = ctx_stack_top - 1
                  /\ popped' = popped \cup {ctx_stack[ctx_stack_top].desc}
                  /\ ctx_stack_index' = ctx_stack_top - 1
                  /\ test_in_function' = FALSE
                  /\ pc' = "ret"
                  /\ UNCHANGED ctx_stack
          /\ ip' = ip
  /\ UNCHANGED <<inputVars, localVars, histVars, run_no, first_trace,
                 grp, prev_line, tmp_line, exit_code, ops, writes,
                 executed, param_no_expect_fail, param_memory_test,
                 test_failed, test_warned, test_in_progress, test_expect_fail,
                 test_skip, test_count, test_passed_count, test_warnings_count,
                 memVars>>

\* the group function reaches its closing brace
FnReturn ==
  /\ pc = "fn" /\ AtFnEnd
  /\ test_in_function' = FALSE
  /\ pc' = "ret"
  /\ UNCHANGED <<inputVars, localVars, histVars, runVars,
                 ip, grp, prev_line, tmp_line, exit_code, ops,
                 writes, executed, paramVars, test_failed, test_warned,
                 test_in_progress, test_expect_fail, test_skip,
                 test_current_line, test_count, test_passed_count,
                 test_warnings_count, ctxVars, memVars>>

\* a pass loop that stops only when the cursor moved backwards
LoopBreaksNever == ~test_in_progress /\ prev_line > test_current_line

\* a pass loop that also stops at the first failed test
LoopBreaksOnFailure ==
  \/ ~test_in_progress /\ prev_line = test_current_line
  \/ test_failed

\* process_function: does the pass loop stop after this pass ?
LoopBreaks == ~test_in_progress /\ prev_line = test_current_line

\* process_function: the pass made progress; _cspec_end() and loop
EndPass ==
  /\ pc = "ret" /\ ~LoopBreaks
  /\ IF test_in_progress
     THEN _cspec_end
     ELSE UNCHANGED <<memory_error, test_count, test_passed_count,
                      test_expect_fail, test_failed, test_in_progress>>
  /\ pc' = "pass"
  /\ UNCHANGED <<inputVars, localVars, histVars, runVars,
                 ip, grp, prev_line, tmp_line, exit_code, ops,
                 writes, executed, paramVars, test_warned, test_in_function,
                 test_skip, test_current_line, test_warnings_count, ctxVars,
                 _memory, memory_ptr, memory_records, memory_records_set,
                 memory_count_mallocs, memory_count_frees, memory_expect_error,
                 memory_malloc_fail, memory_malloc_forced_failures>>

\* a cspec_run_suite that leaves the filter as the group's run left it
RestoredLineNone == param_line

\* cspec_run_suite after process_function: param_line = tmp_line
RestoredLine == tmp_line

\* process_function: the loop breaks, context_clear_stack; cspec_run_suite
\* restores param_line and goes to the next group; after the last group
\* _cspec_run_all returns
GroupDone ==
  /\ pc = "ret" /\ LoopBreaks
  /\ ctx_stack_top' = 0
  /\ ctx_stack_index' = 0
  /\ param_line' = RestoredLine
  /\ IF NextGroup(grp) # 0
     THEN grp' = NextGroup(grp) /\ pc' = "group" /\ UNCHANGED exit_code
     ELSE grp' = grp /\ pc' = "done" /\ exit_code' = RunAllReturn
  /\ UNCHANGED <<inputVars, localVars, histVars, runVars,
                 ip, prev_line, tmp_line, ops, writes, executed,
                 param_no_expect_fail, param_memory_test, testVars, ctx_stack,
                 memVars>>


(* ------------------------ inside a test body -------------------------- *)
InBody == pc = "body" /\ ops > 0

\* the first byte after the payload of record i
OnePast(i) ==
  memory_records[i].block + memory_size_fence + memory_records[i].size

\* the payload pointers of the blocks not yet freed, and their payload bytes
LivePtrs == {memory_records[i].block + memory_size_fence :
               i \in {j \in 1..Len(memory_records) : ~memory_records[j].is_free}}
LivePayload ==
  UNION {(memory_records[i].block + memory_size_fence)..(OnePast(i) - 1) :
           i \in {j \in 1..Len(memory_records) : ~memory_records[j].is_free}}

\* the payload bytes of the blocks marked freed
FreedPayload ==
  UNION {(memory_records[i].block + memory_size_fence)..(OnePast(i) - 1) :
           i \in {j \in 1..Len(memory_records) : memory_records[j].is_free}}

\* the pointers malloc has returned in this pass
PayloadPtrs == {memory_records[i].block + memory_size_fence :
                  i \in 1..Len(memory_records)}

\* the forced-failure request of the test as its body sees it: "never"
\* made, "always", or "once" with no allocation requested since, "zeros"
\* with only zero-size requests handed to cspec_malloc since, "spent" by
\* some other request; the value after one more allocation request
AfterRequest(zero) ==
  IF armed \in {"once", "zeros"}
  THEN IF zero THEN "zeros" ELSE "spent"
  ELSE armed

\* the body calls malloc(size); a store past the end of _memory is
\* undefined behaviour, after which nothing is known of the program
BodyMalloc(size) ==
  /\ InBody
  /\ ops' = ops - 1
  /\ IF ~memory_records_set THEN pc' = pc /\ UNCHANGED memVars
     ELSE IF MallocWild(size) THEN pc' = "ub" /\ UNCHANGED memVars
     ELSE pc' = pc /\ cspec_malloc(size)
  /\ UNCHANGED <<inputVars, localVars, pass_tests, declared, overrun, runVars,
                 ip, grp, prev_line, tmp_line, exit_code,
                 writes, executed, paramVars, testVars, ctxVars>>
  /\ misuse' = IF memory_records_set /\ MallocPath(size) = "nospace"
               THEN misuse \cup {"nospace"} ELSE misuse
  /\ call' = [op |-> "malloc", mem |-> NULL, size |-> size,
              ret |-> IF memory_records_set THEN MallocReturn(size)
                      ELSE OUTSIDE]
  /\ armed' = IF memory_records_set THEN AfterRequest(size = 0) ELSE armed

\* the body calls free(mem)
BodyFree(mem) ==
  /\ InBody /\ memory_records_set
  /\ ops' = ops - 1
  /\ cspec_free(mem)
  /\ UNCHANGED <<inputVars, localVars, pass_tests, declared, overrun, runVars,
                 pc, ip, grp, prev_line, tmp_line, exit_code,
                 writes, executed, paramVars, testVars, ctxVars>>
  /\ misuse' = IF mem # NULL /\ mem \notin LivePtrs
               THEN misuse \cup {"free"} ELSE misuse
  /\ call' = [op |-> "free", mem |-> mem, size |-> 0, ret |-> NULL]
  /\ UNCHANGED armed

\* the body calls calloc(ct, sel)
BodyCalloc(ct, sel) ==
  /\ InBody /\ memory_records_set
  /\ ops' = ops - 1
  /\ IF MallocWild(CallocSize(ct, sel))
     THEN pc' = "ub" /\ UNCHANGED memVars
     ELSE pc' = pc /\ cspec_calloc(ct, sel)
  /\ UNCHANGED <<inputVars, localVars, pass_tests, declared, overrun, runVars,
                 ip, grp, prev_line, tmp_line, exit_code,
                 writes, executed, paramVars, testVars, ctxVars>>
  /\ misuse' = IF MallocPath(CallocSize(ct, sel)) = "nospace"
               THEN misuse \cup {"nospace"} ELSE misuse
  /\ call' = [op |-> "calloc", mem |-> NULL, size |-> CallocSize(ct, sel),
              ct |-> ct, sel |-> sel,
              ret |-> MallocReturn(CallocSize(ct, sel))]
  /\ armed' = AfterRequest(CallocSize(ct, sel) = 0)

\* the body calls realloc(mem, nsize); a store past the end of _memory is
\* undefined behaviour, after which nothing is known of the program
BodyRealloc(mem, nsize) ==
  /\ InBody /\ memory_records_set
  /\ ops' = ops - 1
  /\ IF ReallocWild(mem, nsize)
     THEN pc' = "ub" /\ UNCHANGED memVars
     ELSE pc' = pc /\ cspec_realloc(mem, nsize)
  /\ UNCHANGED <<inputVars, localVars, pass_tests, declared, overrun, runVars,
                 ip, grp, prev_line, tmp_line, exit_code,
                 writes, executed, paramVars, testVars, ctxVars>>
  /\ misuse' = misuse
       \cup (IF mem # NULL /\ mem \notin LivePtrs THEN {"realloc"} ELSE {})
       \cup (IF /\ ReallocPath(mem, nsize) \in {"null", "none", "copy"}
                /\ MallocPath(nsize) = "nospace"
             THEN {"nospace"} ELSE {})
  /\ call' = [op |-> "realloc", mem |-> mem, size |-> nsize,
              ret |-> ReallocReturn(mem, nsize)]
  /\ armed' = AfterRequest(nsize = 0 /\ ReallocPath(mem, nsize) \in {"null", "none"})

\* the body stores the byte c at memory + p
BodyWrite(p, c) ==
  /\ InBody /\ memory_records_set /\ writes > 0
  /\ ops' = ops - 1
  /\ writes' = writes - 1
  /\ _memory' = [_memory EXCEPT ![p + memory_size_barrier] = c]
  /\ UNCHANGED <<inputVars, localVars, pass_tests, declared, runVars,
                 pc, ip, grp, prev_line, tmp_line, exit_code,
                 executed, paramVars, testVars, ctxVars, memory_ptr,
                 memory_records, memory_records_set, memory_count_mallocs,
                 memory_count_frees, memory_expect_error, memory_error,
                 memory_malloc_fail, memory_malloc_forced_failures>>
  /\ misuse' = misuse
       \cup (IF p \notin LivePayload THEN {"write"} ELSE {})
       \cup (IF p \in FreedPayload THEN {"uaf"} ELSE {})
  /\ overrun' = overrun \cup {i \in 1..Len(memory_records) : p = OnePast(i)}
  /\ call' = [op |-> "store", mem |-> p, size |-> 1, ret |-> NULL]
  /\ UNCHANGED armed

\* expect(<directive>) in a test body: the value the directive returns
DirectiveReturns(d) ==
  IF d = "to_fail" THEN TRUE
  ELSE IF ~param_memory_test THEN ~test_in_progress
  ELSE TRUE

\* expect(to_fail), expect(memory_errors), expect(null_malloc),
\* expect(null_mallocs) in a test body; a directive that returns FALSE is
\* a failed expectation: _cspec_error_fn and return
BodyDirective(d) ==
  /\ InBody
  /\ ops' = ops - 1
  /\ IF d = "to_fail"
     THEN /\ test_expect_fail' = (test_expect_fail \/ ~param_no_expect_fail)
          /\ UNCHANGED <<test_skip, memory_expect_error, memory_malloc_fail>>
     ELSE IF ~param_memory_test
     THEN /\ test_expect_fail' = TRUE
          /\ test_skip' = TRUE
          /\ UNCHANGED <<memory_expect_error, memory_malloc_fail>>
     ELSE IF d = "memory_errors"
     THEN /\ memory_expect_error' = (memory_expect_error \/ ~param_no_expect_fail)
          /\ UNCHANGED <<test_expect_fail, test_skip, memory_malloc_fail>>
     ELSE /\ memory_malloc_fail' =
               IF d = "null_malloc" THEN M_FAIL_ONCE ELSE M_FAIL_ALWAYS
          /\ UNCHANGED <<test_expect_fail, test_skip, memory_expect_error>>
  /\ IF DirectiveReturns(d)
     THEN UNCHANGED <<pc, test_failed, test_in_function>>
     ELSE pc' = "ret" /\ test_failed' = TRUE /\ test_in_function' = FALSE
  /\ UNCHANGED <<inputVars, localVars, pass_tests, misuse, overrun, runVars,
                 ip, grp, prev_line, tmp_line, exit_code, writes,
                 executed, paramVars, test_warned, test_in_progress,
                 test_current_line, test_count, test_passed_count,
                 test_warnings_count, ctxVars, _memory, memory_ptr,
                 memory_records, memory_records_set, memory_count_mallocs,
                 memory_count_frees, memory_error,
                 memory_malloc_forced_failures>>
  /\ declared' = declared \cup {d}
  /\ call' = [op |-> d, mem |-> NULL, size |-> 0, ret |-> NULL]
  /\ armed' = IF ~param_memory_test THEN armed
              ELSE IF d = "null_malloc" THEN "once"
              ELSE IF d = "null_mallocs" THEN "always"
              ELSE armed

\* the body evaluates `++incrementor` (once) and reads the result
BodyIncrement ==
  /\ InBody /\ observed = 0
  /\ ops' = ops - 1
  /\ incrementor' = incrementor + 1
  /\ observed' = incrementor + 1
  /\ UNCHANGED <<inputVars, pc, ip, grp, prev_line, tmp_line, exit_code,
                 writes, executed, paramVars, testVars, ctxVars, memVars,
                 histVars, runVars>>

\* an expectation of the body is not met: _cspec_error_fn /
\* _cspec_error_typed, then return from the group function
BodyFail ==
  /\ pc = "body"
  /\ test_failed' = TRUE
  /\ test_in_function' = FALSE
  /\ pc' = "ret"
  /\ UNCHANGED <<inputVars, localVars, histVars, runVars,
                 ip, grp, prev_line, tmp_line, exit_code, ops,
                 writes, executed, paramVars, test_warned, test_in_progress,
                 test_expect_fail, test_skip, test_current_line, test_count,
                 test_passed_count, test_warnings_count, ctxVars, memVars>>

\* the body reaches its closing brace; the group function goes on
BodyEnd ==
  /\ pc = "body"
  /\ pc' = "fn"
  /\ ip' = NextTok(ip + 1)
  /\ UNCHANGED <<inputVars, localVars, histVars, runVars,
                 grp, prev_line, tmp_line, exit_code, ops, writes,
                 executed, paramVars, testVars, ctxVars, memVars>>

(* ------------- statements of the group body outside tests ------------ *)
\* _cspec_warn_fn(0xFFFFFFFF, ...) of memory_directive_warning: the line
\* is -1 as an int, so the guard lets it through only while
\* test_current_line is 0
WarnDirective ==
  IF test_current_line # 0
  THEN UNCHANGED <<test_warned, test_warnings_count>>
  ELSE /\ test_warned' = TRUE
       /\ test_warnings_count' =
            IF test_warned THEN test_warnings_count ELSE test_warnings_count + 1

\* what _cspec_expect_to_fail, _cspec_memory_expect_to_fail and
\* _cspec_memory_malloc_null store when called from an "X" line
SetupArms(d) ==
  IF d = "to_fail"
  THEN /\ test_expect_fail' = (test_expect_fail \/ ~param_no_expect_fail)
       /\ UNCHANGED <<test_skip, memory_expect_error, memory_malloc_fail,
                      test_warned, test_warnings_count>>
  ELSE IF ~param_memory_test
  THEN /\ WarnDirective
       /\ test_expect_fail' = TRUE
       /\ test_skip' = TRUE
       /\ UNCHANGED <<memory_expect_error, memory_malloc_fail>>
  ELSE IF d = "memory_errors"
  THEN /\ memory_expect_error' = (memory_expect_error \/ ~param_no_expect_fail)
       /\ UNCHANGED <<test_expect_fail, test_skip, memory_malloc_fail,
                      test_warned, test_warnings_count>>
  ELSE /\ memory_malloc_fail' =
            IF d = "null_malloc" THEN M_FAIL_ONCE ELSE M_FAIL_ALWAYS
       /\ UNCHANGED <<test_expect_fail, test_skip, memory_expect_error,
                      test_warned, test_warnings_count>>

\* expect(<directive>); as a statement of the group body or of a context
\* block, outside the test bodies (an "X" line); a directive that returns
\* FALSE is a failed expectation: _cspec_error_fn and return
SetupDirective(d) ==
  /\ pc = "fn" /\ ~AtFnEnd /\ file[ip] = "X"
  /\ SetupArms(d)
  /\ IF DirectiveReturns(d)
     THEN /\ ip' = NextTok(ip + 1)
          /\ UNCHANGED <<pc, test_failed, test_in_function>>
     ELSE /\ ip' = ip /\ pc' = "ret"
          /\ test_failed' = (IF test_in_progress THEN TRUE ELSE test_failed)
          /\ test_in_function' = FALSE
  /\ UNCHANGED <<inputVars, localVars, pass_tests, misuse, overrun, call,
                 runVars, grp, prev_line, tmp_line, exit_code, ops, writes,
                 executed, paramVars, test_in_progress,
                 test_current_line, test_count, test_passed_count,
                 ctxVars, _memory, memory_ptr,
                 memory_records, memory_records_set, memory_count_mallocs,
                 memory_count_frees, memory_error,
                 memory_malloc_forced_failures>>
  /\ declared' = declared \cup {d}
  /\ armed' = IF ~param_memory_test THEN armed
              ELSE IF d = "null_malloc" THEN "once"
              ELSE IF d = "null_mallocs" THEN "always"
              ELSE armed

\* an _cspec_error_fn that does not look at test_in_progress
ErrorFnFlagAlways == TRUE

\* test_failed after _cspec_error_fn / _cspec_error_typed
ErrorFnFlag == IF test_in_progress THEN TRUE ELSE test_failed

\* an expectation written as a statement of the group body or of a context
\* block (an "A" line) does not hold: _cspec_error_typed, then the return
\* of the expectation macro
SetupFail ==
  /\ pc = "fn" /\ ~AtFnEnd /\ file[ip] = "A"
  /\ test_failed' = ErrorFnFlag
  /\ test_in_function' = FALSE
  /\ pc' = "ret"
  /\ UNCHANGED <<inputVars, localVars, histVars, runVars,
                 ip, grp, prev_line, tmp_line, exit_code, ops,
                 writes, executed, paramVars, test_warned, test_in_progress,
                 test_expect_fail, test_skip, test_current_line, test_count,
                 test_passed_count, test_warnings_count, ctxVars, memVars>>

\* the statement of an "A" line is free(mem) on a pointer that is no
\* sandbox block, and the group function goes on
SetupFree(mem) ==
  /\ pc = "fn" /\ ~AtFnEnd /\ file[ip] = "A"
  /\ memory_records_set
  /\ cspec_free(mem)
  /\ ip' = NextTok(ip + 1)
  /\ UNCHANGED <<inputVars, localVars, histVars, runVars,
                 pc, grp, prev_line, tmp_line, exit_code, ops,
                 writes, executed, paramVars, testVars, ctxVars>>

\* the expectation of an "A" line holds, and the group function goes on
SetupHolds ==
  /\ pc = "fn" /\ ~AtFnEnd /\ file[ip] = "A"
  /\ ip' = NextTok(ip + 1)
  /\ UNCHANGED <<inputVars, localVars, histVars, runVars,
                 pc, grp, prev_line, tmp_line, exit_code, ops,
                 writes, executed, paramVars, testVars, ctxVars, memVars>>

(* -------------------------- specifications ---------------------------- *)
\* Spec: the engine over every well-formed file and every argument vector;
\* a test body is a short choice among an expectation that fails, a memory
\* error, expect(to_fail), ++incrementor and doing nothing.
Next ==
  \/ RunAll
  \/ GroupStart
  \/ BeforePass
  \/ TestBegin(EngineBodyOps)
  \/ ContextEnter
  \/ ContextReenter
  \/ ContextEnd
  \/ FnReturn
  \/ EndPass
  \/ GroupDone
  \/ BodyFree(OUTSIDE)
  \/ BodyDirective("to_fail")
  \/ BodyIncrement
  \/ BodyFail
  \/ BodyEnd

Spec == Init /\ [][Next]_vars

\* LoopSpec: the pass loop alone, over every well-formed file and every
\* argument vector; a test body either fails an expectation and returns or
\* runs to its closing brace. The program runs to completion: a step that
\* is possible is eventually taken.
NextLoop ==
  \/ RunAll
  \/ GroupStart
  \/ BeforePass
  \/ TestBegin(EngineBodyOps)
  \/ ContextEnter
  \/ ContextReenter
  \/ ContextEnd
  \/ FnReturn
  \/ EndPass
  \/ GroupDone
  \/ BodyFail
  \/ BodyEnd

LoopSpec == Init /\ [][NextLoop]_vars /\ WF_vars(NextLoop)

\* a file with one group holding one test
SingleTest ==
  [i \in 1..MaxLines |-> IF i = 1 THEN "D" ELSE IF i = 2 THEN "T" ELSE "G"]

\* TestSpec: one test under every choice of -f and -m, its body a sequence of
\* directives, allocations, frees and failing expectations.
InitTest ==
  /\ file = SingleTest
  /\ argv \in [line : {0}, f : BOOLEAN, m : BOOLEAN]
  /\ InitGlobals

NextTest ==
  \/ RunAll
  \/ GroupStart
  \/ BeforePass
  \/ TestBegin(TestBodyOps)
  \/ FnReturn
  \/ EndPass
  \/ GroupDone
  \/ \E size \in {1, memory_size_max} : BodyMalloc(size)
  \/ \E mem \in PayloadPtrs \cup {OUTSIDE} : BodyFree(mem)
  \/ \E d \in {"to_fail", "memory_errors"} : BodyDirective(d)
  \/ BodyFail
  \/ BodyEnd

TestSpec == InitTest /\ [][NextTest]_vars

\* MemSpec: one test under the default arguments, its body a sequence of
\* malloc, free and byte stores.
InitMem ==
  /\ file = SingleTest
  /\ argv = [line |-> 0, f |-> FALSE, m |-> FALSE]
  /\ InitGlobals

\* the addresses a body stores to: the payload of a block and the byte
\* after it
WriteTargets ==
  UNION {(memory_records[i].block + memory_size_fence)..OnePast(i) :
           i \in 1..Len(memory_records)}

WriteBytes == {BYTE_bang, BYTE_e, BYTE_F}

NextMem ==
  \/ RunAll
  \/ GroupStart
  \/ BeforePass
  \/ TestBegin(MaxBodyOps)
  \/ FnReturn
  \/ EndPass
  \/ GroupDone
  \/ \E size \in 0..MaxAllocSize : BodyMalloc(size)
  \/ \E mem \in PayloadPtrs \cup {q + 1 : q \in PayloadPtrs} \cup {NULL, OUTSIDE} :
       BodyFree(mem)
  \/ \E p \in WriteTargets, c \in WriteBytes : BodyWrite(p, c)
  \/ BodyFail
  \/ BodyEnd

MemSpec == InitMem /\ [][NextMem]_vars

\* the sizes a body passes to realloc: small ones and one larger than
\* _memory
HugeSize == memory_size_max + memory_size_barrier * 2
ReallocSizes == 0..MaxAllocSize \cup {memory_size_max, HugeSize}

\* ReallocSpec: one test under the default arguments, its body a sequence
\* of malloc, realloc and free on the pointers malloc and realloc returned.
NextRealloc ==
  \/ RunAll
  \/ GroupStart
  \/ BeforePass
  \/ TestBegin(ReallocBodyOps)
  \/ FnReturn
  \/ EndPass
  \/ GroupDone
  \/ \E size \in 1..MaxAllocSize : BodyMalloc(size)
  \/ \E mem \in PayloadPtrs, nsize \in ReallocSizes : BodyRealloc(mem, nsize)
  \/ \E mem \in PayloadPtrs : BodyFree(mem)
  \/ BodyEnd

ReallocSpec == InitMem /\ [][NextRealloc]_vars

\* NullSpec: one test under every choice of -f and -m, its body a sequence
\* of directives, allocation requests through malloc, calloc and realloc,
\* frees and failing expectations.
NextNull ==
  \/ RunAll
  \/ GroupStart
  \/ BeforePass
  \/ TestBegin(NullBodyOps)
  \/ FnReturn
  \/ EndPass
  \/ GroupDone
  \/ \E d \in {"null_malloc", "null_mallocs", "to_fail", "memory_errors"} :
       BodyDirective(d)
  \/ \E size \in 0..1 : BodyMalloc(size)
  \/ BodyCalloc(1, 1)
  \/ \E mem \in PayloadPtrs \cup {NULL}, nsize \in 0..1 : BodyRealloc(mem, nsize)
  \/ \E mem \in PayloadPtrs : BodyFree(mem)
  \/ BodyFail
  \/ BodyEnd

NullSpec == InitTest /\ [][NextNull]_vars

\* the sizes and counts of the size type a body passes to malloc and
\* calloc: small ones, the largest ones, and the ones around the half of
\* the range
WordSizes == {1, 2, SizeModulus - memory_size_fence * 2 - 1,
              SizeModulus - memory_size_fence * 2, SizeModulus - 1}
WordCounts == {0, 1, 2, SizeModulus \div 2, SizeModulus \div 2 + 1,
               SizeModulus - 1}

\* WordSpec: one test under the default arguments, its body a sequence of
\* malloc, calloc and free with sizes and counts over the whole range of
\* size_t.
NextWord ==
  \/ RunAll
  \/ GroupStart
  \/ BeforePass
  \/ TestBegin(WordBodyOps)
  \/ FnReturn
  \/ EndPass
  \/ GroupDone
  \/ \E size \in WordSizes : BodyMalloc(size)
  \/ \E ct \in WordCounts, sel \in WordCounts : BodyCalloc(ct, sel)
  \/ \E mem \in PayloadPtrs : BodyFree(mem)
  \/ BodyEnd

WordSpec == InitMem /\ [][NextWord]_vars

\* SuiteSpec: a run over one or two suites, the second file numbering its
\* lines from 1 again, under every line filter; bodies fail or end.
SuiteFiles == {f \in [1..MaxLines -> Tokens \cup {"S"}] : WellFormed(f)}

InitSuite ==
  /\ file \in SuiteFiles
  /\ argv \in [line : 1..MaxLines, f : {FALSE}, m : {FALSE}]
  /\ InitGlobals

NextSuite ==
  \/ RunAll
  \/ GroupStart
  \/ BeforePass
  \/ TestBegin(EngineBodyOps)
  \/ ContextEnter
  \/ ContextReenter
  \/ ContextEnd
  \/ FnReturn
  \/ EndPass
  \/ GroupDone
  \/ BodyFail
  \/ BodyEnd

SuiteSpec == InitSuite /\ [][NextSuite]_vars

\* DeepSpec: a run over every well-formed file of DeepLines lines that
\* nests contexts as deep as the stack has entries, so that the innermost
\* context does not fit; under every line filter; bodies fail or end.
DeepLines == 2 * cspec_ctx_stack_size_max + 2

DeepFiles ==
  {f \in [1..DeepLines -> Tokens] :
     /\ WellFormed(f)
     /\ \E i \in 1..DeepLines : DepthAt(f, i) >= cspec_ctx_stack_size_max}

InitDeep ==
  /\ file \in DeepFiles
  /\ argv \in [line : 0..DeepLines, f : {FALSE}, m : {FALSE}]
  /\ InitGlobals

DeepSpec == InitDeep /\ [][NextSuite]_vars

\* the test program is started a second time with the same arguments; what
\* the first run executed and returned is kept for comparison
RunAgain ==
  /\ pc = "done" /\ run_no = 1
  /\ run_no' = 2 /\ popped_in' = 0 /\ popped' = {}
  /\ first_trace' = [tests |-> executed, code |-> exit_code]
  /\ pc' = "start" /\ ip' = 0 /\ grp' = 0 /\ prev_line' = 0 /\ tmp_line' = 0
  /\ exit_code' = 0 - 1 /\ ops' = 0 /\ writes' = 0 /\ executed' = <<>>
  /\ param_line' = 0 /\ param_no_expect_fail' = FALSE /\ param_memory_test' = TRUE
  /\ test_failed' = FALSE /\ test_warned' = FALSE /\ test_in_function' = FALSE
  /\ test_in_progress' = FALSE /\ test_expect_fail' = FALSE /\ test_skip' = FALSE
  /\ test_current_line' = 0
  /\ test_count' = 0 /\ test_passed_count' = 0 /\ test_warnings_count' = 0
  /\ ctx_stack' = [i \in 0..(cspec_ctx_stack_size_max - 1) |->
                    [desc |-> IF i = 0 THEN ROOT_DESC ELSE NULL_DESC,
                     requested_context |-> FALSE]]
  /\ ctx_stack_index' = 0 /\ ctx_stack_top' = 0
  /\ _memory' = [i \in 0..(memory_size_full - 1) |-> 0]
  /\ memory_ptr' = 0 /\ memory_records' = <<>> /\ memory_records_set' = FALSE
  /\ memory_count_mallocs' = 0 /\ memory_count_frees' = 0
  /\ memory_expect_error' = FALSE /\ memory_error' = FALSE
  /\ memory_malloc_fail' = M_NORMAL /\ memory_malloc_forced_failures' = 0
  /\ incrementor' = 0 /\ observed' = 0
  /\ pass_tests' = 0 /\ declared' = {} /\ misuse' = {} /\ overrun' = {}
  /\ call' = NoCall /\ armed' = "never"
  /\ UNCHANGED inputVars

\* TwiceSpec: two runs of the same file under the same arguments, the
\* bodies of the tests free to differ between the runs
NextTwice == Next \/ RunAgain

TwiceSpec == Init /\ [][NextTwice]_vars

\* the program calls _cspec_run_all a second time, with no arguments:
\* the parameter defaults _cspec_run_all assigns, process_args with nothing
\* to parse, before_run, before_suite; every other global is as the first
\* call left it
RunAllAgain ==
  /\ pc = "done" /\ run_no = 1
  /\ run_no' = 2 /\ popped_in' = 0 /\ popped' = {}
  /\ first_trace' = [tests |-> executed, code |-> exit_code]
  /\ executed' = <<>> /\ exit_code' = 0 - 1
  /\ param_no_expect_fail' = FALSE
  /\ param_memory_test' = TRUE
  /\ test_count' = 0 /\ test_passed_count' = 0 /\ test_warnings_count' = 0
  /\ grp' = 1
  /\ pc' = "group"
  /\ UNCHANGED <<inputVars, localVars, histVars, param_line,
                 ip, prev_line, tmp_line, ops, writes,
                 test_failed, test_warned, test_in_function,
                 test_in_progress, test_expect_fail, test_skip,
                 test_current_line, ctxVars, memVars>>

\* AgainSpec: one program that calls _cspec_run_all twice over the same
\* file, first under every line filter and then with no arguments; bodies
\* fail or end.
InitAgain ==
  /\ file \in Files
  /\ argv \in [line : 0..MaxLines, f : {FALSE}, m : {FALSE}]
  /\ InitGlobals

NextAgain == NextSuite \/ RunAllAgain

AgainSpec == InitAgain /\ [][NextAgain]_vars

\* a file with one group holding two tests
TwoTests ==
  [i \in 1..MaxLines |-> IF i = 1 THEN "D" ELSE IF i \in {2, 3} THEN "T" ELSE "G"]

\* PairSpec: two tests of one group under the default arguments, the body
\* of each a sequence of directives, malloc, realloc, free and byte stores.
InitPair ==
  /\ file = TwoTests
  /\ argv = [line |-> 0, f |-> FALSE, m |-> FALSE]
  /\ InitGlobals

NextPair ==
  \/ RunAll
  \/ GroupStart
  \/ BeforePass
  \/ TestBegin(PairBodyOps)
  \/ FnReturn
  \/ EndPass
  \/ GroupDone
  \/ \E d \in {"null_mallocs", "memory_errors"} : BodyDirective(d)
  \/ \E size \in 1..MaxAllocSize : BodyMalloc(size)
  \/ \E mem \in PayloadPtrs, nsize \in {0, memory_size_max} :
       BodyRealloc(mem, nsize)
  \/ \E mem \in PayloadPtrs \cup {OUTSIDE} : BodyFree(mem)
  \/ \E p \in WriteTargets : BodyWrite(p, BYTE_bang)
  \/ BodyEnd

PairSpec == InitPair /\ [][NextPair]_vars

\* one group whose body and context blocks hold statements outside the
\* tests: an "A" line is an expectation or a free
SetupTokens == {"C", "E", "T", "A"}
SetupFiles ==
  {f \in [1..MaxLines -> SetupTokens \cup {"D"}] :
     /\ WellFormed(f)
     /\ \A i \in 2..MaxLines : f[i] # "D"
     /\ \E i \in 2..MaxLines : f[i] = "A"
     /\ \E i \in 2..MaxLines : f[i] = "T"}

\* SetupSpec: the engine over every such file and every argument vector;
\* a test body is a short choice among an expectation that fails, a
\* malloc, a free of a pointer outside the arena and doing nothing.
InitSetup ==
  /\ file \in SetupFiles
  /\ argv \in Args
  /\ InitGlobals

NextSetup ==
  \/ RunAll
  \/ GroupStart
  \/ BeforePass
  \/ TestBegin(EngineBodyOps)
  \/ ContextEnter
  \/ ContextReenter
  \/ ContextEnd
  \/ FnReturn
  \/ EndPass
  \/ GroupDone
  \/ SetupFail
  \/ SetupFree(OUTSIDE)
  \/ SetupHolds
  \/ BodyMalloc(1)
  \/ BodyFree(OUTSIDE)
  \/ BodyFail
  \/ BodyEnd

SetupSpec == InitSetup /\ [][NextSetup]_vars

\* one group with expectation directives ("X" lines) as statements of its
\* context blocks, long enough for a context that holds a directive and a
\* test and is followed by a test
ScopeTokens == {"C", "E", "T", "X"}
ScopeFiles ==
  {f \in [1..ScopeLines -> ScopeTokens \cup {"D"}] :
     /\ WellFormed(f)
     /\ \A i \in 2..ScopeLines : f[i] # "D"
     /\ \E i \in 2..ScopeLines : f[i] = "X"
     /\ \A i \in 2..ScopeLines : f[i] = "X" => DepthAt(f, i) > 0
     /\ \E i \in 2..ScopeLines : f[i] = "T"}

ScopeArgs == [line : 0..ScopeLines, f : BOOLEAN, m : BOOLEAN]

\* ScopeSpec: the engine over every such file and every argument vector;
\* a test body is a short choice among an expectation that fails, a malloc
\* and doing nothing.
InitScope ==
  /\ file \in ScopeFiles
  /\ argv \in ScopeArgs
  /\ InitGlobals

NextScope ==
  \/ RunAll
  \/ GroupStart
  \/ BeforePass
  \/ TestBegin(EngineBodyOps)
  \/ ContextEnter
  \/ ContextReenter
  \/ ContextEnd
  \/ FnReturn
  \/ EndPass
  \/ GroupDone
  \/ \E d \in {"to_fail", "memory_errors", "null_malloc", "null_mallocs"} :
       SetupDirective(d)
  \/ BodyMalloc(1)
  \/ BodyFail
  \/ BodyEnd

ScopeSpec == InitScope /\ [][NextScope]_vars

(* ------------------------------ claims -------------------------------- *)
\* the test lines of the group whose describe() is at line g
GroupTests(g) ==
  {i \in (g + 1)..Len(file) :
     file[i] = "T" /\ \A k \in (g + 1)..i : ~IsGroup(file[k])}

Executed == {executed[k] : k \in 1..Len(executed)}

\* C1: for every well-formed group and every value of the line filter the
\* pass loop of process_function reaches its fixed point: every run of
\* _cspec_run_all over the file returns.
C1_RunGroupTerminates == <>(pc = "done")

\* C1 witness: a run has returned after passes that executed two tests and
\* popped a context
C1_Witness ==
  /\ pc = "done"
  /\ Len(executed) >= 2
  /\ \E i \in 1..Len(file) : file[i] = "C"

\* C2: with no line filter and no skip, when the pass loop of a group stops
\* every test of the group has been executed.
C2_AllTestsExecuted ==
  (pc = "ret" /\ LoopBreaks /\ argv.line = 0)
     => GroupTests(grp) \subseteq Executed

\* C3: a pass executes at most one test body, and the value a test body
\* reads from ++incrementor is 2 in every test, whatever ran before it.
C3_ContextReplay ==
  /\ pass_tests <= 1
  /\ observed \in {0, 2}

\* C3 witness: the second of two sibling tests of a context reads 2
C3_Witness ==
  /\ pc = "body" /\ observed = 2
  /\ ctx_stack_top >= 1
  /\ Len(executed) >= 2
  /\ file[executed[Len(executed) - 1]] = "T"
  /\ \A k \in executed[Len(executed) - 1]..executed[Len(executed)] :
        file[k] \in {"T", "G"}

\* _cspec_end acts on a test in progress in this step
EndsTest == pc = "ret" /\ test_in_progress /\ ~test_in_progress'

CountedPassed == test_passed_count' = test_passed_count + 1

\* C4: _cspec_end on a test in progress increments test_passed_count iff
\* the failed flag equals test_expect_fail and the memory error flag equals
\* memory_expect_error, the flags being those left by the final checks;
\* otherwise the counter is unchanged.
C4_PassedIffBothMatch ==
  [][EndsTest =>
       /\ CountedPassed <=> /\ FailedAtEnd <=> test_expect_fail
                            /\ memory_error' <=> memory_expect_error
       /\ test_passed_count' \in {test_passed_count, test_passed_count + 1}
       /\ test_count' = test_count + 1]_vars

\* C4 witness: a test that failed and had a memory error, expecting both,
\* has been counted as passed
C4_Witness ==
  /\ pc = "pass" /\ test_count = 1 /\ test_passed_count = 1
  /\ test_failed /\ test_expect_fail /\ memory_error /\ memory_expect_error

\* C5 as stated: without -f, a test that declared expect(to_fail) is
\* counted as passed iff it had an assertion failure or a memory error.
C5_ToFailAnyError ==
  [][(EndsTest /\ "to_fail" \in declared /\ ~argv.f)
       => (CountedPassed <=> (FailedAtEnd \/ memory_error'))]_vars

\* C5: without -f, a test that declared expect(to_fail) and not
\* expect(memory_errors) is counted as passed iff it had an assertion
\* failure and no memory error.
C5_ToFailAssertionOnly ==
  [][(EndsTest /\ "to_fail" \in declared /\ "memory_errors" \notin declared
        /\ ~argv.f)
       => (CountedPassed <=> (FailedAtEnd /\ ~memory_error'))]_vars

\* C5 witness: a test that declared expect(to_fail), failed an expectation
\* and had a memory error has been counted as not passed
C5_Witness ==
  /\ pc = "pass" /\ test_count = 1 /\ test_passed_count = 0
  /\ declared = {"to_fail"} /\ ~argv.f
  /\ test_failed /\ memory_error

\* C6 as stated: without -f, a test that declared expect(memory_errors) and
\* not expect(to_fail) and has no assertion failure is counted as passed iff
\* a memory error was recorded.
C6_MemoryErrorsExpected ==
  [][(EndsTest /\ "memory_errors" \in declared /\ "to_fail" \notin declared
        /\ ~FailedAtEnd /\ ~argv.f)
       => (CountedPassed <=> memory_error')]_vars

\* C6: the same, for a test none of whose allocations ran out of test
\* memory.
C6_MemoryErrorsInForce ==
  [][(EndsTest /\ "memory_errors" \in declared /\ "to_fail" \notin declared
        /\ ~FailedAtEnd /\ ~argv.f /\ "nospace" \notin misuse)
       => (CountedPassed <=> memory_error')]_vars

\* C6 witness: a test that declared expect(memory_errors) and freed a
\* pointer it did not own has been counted as passed
C6_Witness ==
  /\ pc = "pass" /\ test_count = 1 /\ test_passed_count = 1
  /\ declared = {"memory_errors"} /\ misuse = {"free"}
  /\ ~test_failed /\ memory_error

\* C7: _cspec_run_all returns the number of tests executed minus the number
\* counted as passed; the value is never negative and is 0 iff every test
\* executed was counted as passed.
C7_ReturnsFailedCount ==
  pc = "done" =>
    /\ exit_code = Len(executed) - test_passed_count
    /\ exit_code >= 0
    /\ exit_code = 0 <=> test_passed_count = Len(executed)

\* C7 witness: a filtered run has returned 1 after one test, not passed,
\* in a file of at least two tests
C7_Witness ==
  /\ pc = "done" /\ exit_code = 1 /\ Len(executed) = 1
  /\ argv.line # 0
  /\ Cardinality({i \in 1..Len(file) : file[i] = "T"}) >= 2

\* C8: two runs over the same file with the same arguments execute the same
\* sequence of tests, whatever the tests of either run do (pass, fail an
\* expectation at any statement, commit a memory error).
C8_SameTestsWhateverOutcome ==
  (pc = "done" /\ run_no = 2) => executed = first_trace.tests

\* C8 witness: both runs executed the same three tests, the first run with
\* no test passing and the second with every test passing
C8_Witness ==
  /\ pc = "done" /\ run_no = 2
  /\ Len(executed) = 3
  /\ first_trace.code = 3 /\ exit_code = 0

AllFreed == \A i \in 1..Len(memory_records) : memory_records[i].is_free

\* C9: at the end of a test whose body only called malloc and free, freed
\* every block exactly once, stored only into payload bytes of live blocks
\* and never ran out of test memory, no memory error has been recorded and
\* the final checks find nothing.
C9_CleanUseNoErrors ==
  (pc = "ret" /\ test_in_progress /\ misuse = {} /\ AllFreed)
    => /\ ~memory_error
       /\ ~FinalChecksMemError
       /\ ~FinalChecksDesignError

\* C9 witness: a test allocated two blocks, stored into a payload byte and
\* freed both blocks
C9_Witness ==
  /\ pc = "ret" /\ test_in_progress /\ ~test_failed
  /\ misuse = {} /\ AllFreed
  /\ Len(memory_records) = 2 /\ writes < MaxWrites

\* record i goes from allocated to freed in this step
Freed(i) ==
  /\ i <= Len(memory_records')
  /\ ~memory_records[i].is_free
  /\ memory_records'[i].is_free

\* C10 as stated: a store to the byte after the payload of a block is
\* recorded as a memory error when the block is freed and, at the latest,
\* when the test ends.
C10_OverrunReported ==
  [][/\ \A i \in overrun : Freed(i) => memory_error'
     /\ (EndsTest /\ overrun # {}) => memory_error']_vars

\* C10: a block whose byte after the payload no longer holds the fence
\* value is recorded as a memory error when it is freed, and when a test
\* with no failed expectation ends.
C10_BrokenFenceReported ==
  [][/\ \A i \in 1..Len(memory_records) :
          (Freed(i) /\ Mem(OnePast(i)) # BYTE_e) => memory_error'
     /\ (EndsTest /\ ~test_failed
           /\ \E i \in 1..Len(memory_records) : Mem(OnePast(i)) # BYTE_e)
          => memory_error']_vars

\* C10 witness: a block was freed after a store changed the byte after its
\* payload, and the memory error is recorded
C10_Witness ==
  /\ pc = "body" /\ memory_error /\ misuse = {"write"}
  /\ \E i \in overrun :
       /\ memory_records[i].is_free
       /\ Mem(OnePast(i)) = BYTE_bang

\* the body makes an allocator call in this step
CallStep(op) == pc = "body" /\ ops' = ops - 1 /\ call'.op = op

\* the pointers of the blocks marked freed
FreedPtrs == {memory_records[i].block + memory_size_fence :
                i \in {j \in 1..Len(memory_records) : memory_records[j].is_free}}

\* the payload bytes (as indices of _memory) of the blocks that start at p
PayloadIndices(p) ==
  UNION {(p + memory_size_barrier)..(p + memory_size_barrier
                                       + memory_records[i].size - 1) :
           i \in {j \in 1..Len(memory_records) :
                    memory_records[j].block + memory_size_fence = p}}

\* C11: free(p) on a pointer whose block is already marked freed records a
\* memory error, whatever malloc, realloc and free calls came between the
\* two frees; the call changes nothing but the payload of that block and
\* the free count, so later allocations are served as before.
C11_DoubleFreeReported ==
  [][(CallStep("free") /\ call'.mem \in FreedPtrs)
       => /\ memory_error'
          /\ pc' = "body"
          /\ memory_ptr' = memory_ptr
          /\ memory_records' = memory_records
          /\ \A i \in DOMAIN _memory :
               i \notin PayloadIndices(call'.mem) => _memory'[i] = _memory[i]]_vars

\* C11 witness: after a block was freed twice, malloc returned a new block
C11_Witness ==
  /\ pc = "body" /\ memory_error /\ misuse = {"free"}
  /\ call.op = "malloc" /\ call.ret # NULL
  /\ Len(memory_records) = 2
  /\ memory_records[1].is_free /\ ~memory_records[2].is_free
  /\ memory_count_frees = 2

\* C12 as stated: when a test with no failed expectation ends after a
\* store to a payload byte of a freed block, a memory error is recorded.
C12_StaleWriteReported ==
  [][(EndsTest /\ ~test_failed /\ "uaf" \in misuse) => memory_error']_vars

\* C12: when a test with no failed expectation ends while a payload byte of
\* a freed block differs from the fill byte 'F', a memory error is recorded.
C12_StaleByteReported ==
  [][(EndsTest /\ ~test_failed
        /\ \E p \in FreedPayload : Mem(p) # BYTE_F) => memory_error']_vars

\* C12 witness: a test that allocated one block, freed it and then stored
\* '!' into its payload has ended with the memory error recorded
C12_Witness ==
  /\ pc = "pass" /\ test_count = 1 /\ ~test_failed /\ memory_error
  /\ misuse = {"write", "uaf"} /\ overrun = {}
  /\ Len(memory_records) = 1 /\ memory_count_frees = 1
  /\ \E p \in FreedPayload : Mem(p) = BYTE_bang

\* some record of this pass is not marked freed
Leaked == \E i \in 1..Len(memory_records) : ~memory_records[i].is_free

\* the allocation count differs from the free count
Imbalanced == memory_count_mallocs # memory_count_frees

\* C13: when a test with no failed expectation ends with a block not marked
\* freed, or with the allocation count different from the free count, a
\* memory error is recorded, and the test is counted as passed only if it
\* declared expect(memory_errors).
C13_LeakIsMemoryError ==
  [][(EndsTest /\ ~test_failed /\ (Leaked \/ Imbalanced))
       => /\ memory_error'
          /\ CountedPassed => "memory_errors" \in declared]_vars

\* C13 witness: a test whose only operation was one successful malloc has
\* ended with a memory error and was not counted as passed
C13_Witness ==
  /\ pc = "pass" /\ test_count = 1 /\ test_passed_count = 0
  /\ ~test_failed /\ memory_error /\ declared = {} /\ misuse = {}
  /\ Len(memory_records) = 1 /\ Leaked
  /\ memory_count_mallocs = 1 /\ memory_count_frees = 0

\* the smaller of two sizes
Min(a, b) == IF a < b THEN a ELSE b

\* the payload address of the last record of the table
LastPayload == LastRecord.block + memory_size_fence

\* the step is a call realloc(mem, ...) on the last record, which is live
\* and whose fences are intact
ReallocLast ==
  /\ CallStep("realloc")
  /\ Len(memory_records) > 0
  /\ call'.mem = LastPayload
  /\ ~LastRecord.is_free
  /\ memory_check_fence(_memory, LastRecord)

\* C14: realloc on the last live block returns the same payload address,
\* keeps the first min(old, new) payload bytes, fills the bytes from old to
\* new with 'N' when growing, and leaves the record with the new size and
\* both fences intact around the new payload.
C14_InPlaceRealloc ==
  [][ReallocLast
       => /\ pc' = "body"
          /\ call'.ret = call'.mem
          /\ memory_records' =
               [memory_records EXCEPT ![Len(memory_records)].size = call'.size]
          /\ \A j \in 0..(Min(LastRecord.size, call'.size) - 1) :
               _memory'[LastPayload + j + memory_size_barrier]
                 = Mem(LastPayload + j)
          /\ \A j \in LastRecord.size..(call'.size - 1) :
               _memory'[LastPayload + j + memory_size_barrier] = BYTE_N
          /\ memory_check_fence(_memory',
               [LastRecord EXCEPT !.size = call'.size])]_vars

\* the index of the record whose payload starts at p
RecordOf(p) ==
  CHOOSE i \in 1..Len(memory_records) :
    memory_records[i].block + memory_size_fence = p

\* every record of the table m has both fences intact in the arena a
FencesIntact(a, m) == \A i \in 1..Len(m) : memory_check_fence(a, m[i])

\* the step is a call realloc(mem, nsize) on a live block that is not the
\* last record, with a size from 1 to MaxAllocSize that the arena can
\* serve, all fences intact
ReallocEarlier ==
  /\ CallStep("realloc")
  /\ call'.mem \in LivePtrs
  /\ call'.mem # LastPayload
  /\ call'.size \in 1..MaxAllocSize
  /\ MallocPath(call'.size) = "ok"
  /\ FencesIntact(_memory, memory_records)

\* C15: realloc on a live block that is not the last record returns a fresh
\* block whose first min(old, new) payload bytes are those of that block,
\* marks that block and no other freed, and leaves every fence intact.
C15_AllocateCopyFree ==
  [][ReallocEarlier
       => LET old == RecordOf(call'.mem)
              new == Len(memory_records) + 1
          IN /\ pc' = "body"
             /\ Len(memory_records') = new
             /\ call'.ret = memory_records'[new].block + memory_size_fence
             /\ memory_records'[new].size = call'.size
             /\ ~memory_records'[new].is_free
             /\ \A j \in 0..(Min(memory_records[old].size, call'.size) - 1) :
                  _memory'[call'.ret + j + memory_size_barrier]
                    = Mem(call'.mem + j)
             /\ \A i \in 1..Len(memory_records) :
                  memory_records'[i].is_free
                    = (memory_records[i].is_free \/ i = old)
             /\ FencesIntact(_memory', memory_records')]_vars

\* the step is an allocation request made of the sandbox
AllocStep ==
  /\ pc = "body" /\ ops' = ops - 1 /\ memory_records_set
  /\ call'.op \in {"malloc", "calloc", "realloc"}

\* the request of the step has a nonzero size that the arena can serve
Servable ==
  /\ call'.size > 0
  /\ MallocNext(call'.size) < memory_size_max - memory_size_fence * 2
  /\ FencesIntact(_memory, memory_records)

NeverFired == armed # "never" /\ memory_malloc_forced_failures = 0

\* C17 as stated: a test that ends with a forced allocation failure
\* requested and never fired is not counted as passed.
C17_NeverFiredFails ==
  [][(EndsTest /\ NeverFired) => ~CountedPassed]_vars

\* C17: a test that ends with a forced allocation failure requested and
\* never fired is counted as passed iff expect(to_fail) is in force and the
\* memory error flag agrees with expect(memory_errors).
C17_NeverFiredIsFailure ==
  [][(EndsTest /\ NeverFired)
       => (CountedPassed
             <=> test_expect_fail /\ (memory_error' <=> memory_expect_error))]_vars

\* C17 witness: a test that declared expect(null_malloc) and
\* expect(to_fail) and requested no allocation was counted as passed
C17_Witness ==
  /\ pc = "pass" /\ test_count = 1 /\ test_passed_count = 1
  /\ declared = {"null_malloc", "to_fail"} /\ armed = "once"
  /\ memory_malloc_forced_failures = 0 /\ ~memory_error
  /\ Len(memory_records) = 0

\* the sandbox saw no misuse: nothing leaked, the counters agree and every
\* fence is intact
CleanMemory ==
  /\ misuse = {} /\ ~Leaked /\ ~Imbalanced
  /\ FencesIntact(_memory, memory_records)

\* C18: when a test with no failed expectation ends with a forced
\* allocation failure requested and never fired, the failed flag is set and
\* the memory error flag is not set by that check; the test is not counted
\* as passed without expect(to_fail), whatever expect(memory_errors) says,
\* and with expect(to_fail) alone, no -f and clean memory it is counted as
\* passed.
C18_NeverFiredIsOrdinaryFailure ==
  [][(EndsTest /\ NeverFired /\ ~test_failed)
       => /\ test_failed'
          /\ CleanMemory => ~memory_error'
          /\ "to_fail" \notin declared => ~CountedPassed
          /\ (CleanMemory /\ "to_fail" \in declared
                /\ "memory_errors" \notin declared /\ ~argv.f)
               => CountedPassed]_vars

\* C18 witness: a test that declared expect(null_mallocs) and
\* expect(memory_errors) and requested no allocation was not counted as
\* passed; the failed flag is set and the memory error flag is not
C18_Witness ==
  /\ pc = "pass" /\ test_count = 1 /\ test_passed_count = 0
  /\ declared = {"null_mallocs", "memory_errors"} /\ armed = "always"
  /\ memory_malloc_forced_failures = 0
  /\ test_failed /\ ~memory_error

\* the describe() line of the group that line i belongs to
GroupOf(i) ==
  CHOOSE g \in 1..i :
    IsGroup(file[g]) /\ \A k \in (g + 1)..i : ~IsGroup(file[k])

\* line i lies inside the block of the context declared at line c
InsideContext(c, i) == file[c] = "C" /\ c < i /\ i < Closer(c)

\* the tests the line filter L selects: the test of line L, the tests
\* inside the context declared at line L, the tests of the group declared
\* at line L
Selected(L) ==
  {i \in 1..Len(file) :
     /\ file[i] = "T"
     /\ \/ i = L
        \/ IF L \in 1..Len(file) THEN InsideContext(L, i) ELSE FALSE
        \/ GroupOf(i) = L}

\* C19: when a run with the line filter L has returned, the tests executed
\* are exactly the tests L selects, and no other test was counted.
C19_FilterSelects ==
  (pc = "done" /\ argv.line > 0)
     => /\ Executed = Selected(argv.line)
        /\ test_count = Cardinality(Selected(argv.line))

\* C20 as stated: once the context requested by the line filter has been
\* popped, no test is executed for the rest of the run.
C20_RunEndsAfterRequested ==
  [][popped_in # 0 => executed' = executed]_vars

\* C20: once the context requested by the line filter has been popped, the
\* filter holds -1 while the group function of that context is processed,
\* and no test is executed before the next group starts.
C20_GroupEndsAfterRequested ==
  [][/\ (popped_in' # 0 /\ popped_in' = grp' /\ pc' \notin {"group", "done"})
          => param_line' = 0 - 1
     /\ (popped_in # 0 /\ popped_in = grp) => executed' = executed]_vars

\* C20 witness: the run has returned after the requested context was
\* popped in the first group; a test that follows the context in that group
\* was begun and not executed
C20_Witness ==
  /\ pc = "done" /\ popped_in = 1 /\ file[argv.line] = "C"
  /\ \E i \in GroupTests(1) :
       /\ i > Closer(argv.line)
       /\ test_current_line >= i
       /\ \A k \in 1..Len(executed) : executed[k] # i

\* C21: the cursor into the context stack is between 0 and the top, the
\* top is below cspec_ctx_stack_size_max, and no assert of the engine
\* fails: _cspec_context_end never pops the root entry.
C21_StackBounded ==
  /\ 0 <= ctx_stack_index
  /\ ctx_stack_index <= ctx_stack_top
  /\ ctx_stack_top <= cspec_ctx_stack_size_max - 1
  /\ pc # "abort"

\* C21 witness: the stack is full, a deeper context was refused with the
\* capacity warning, and the group function goes on
C21_Witness ==
  /\ pc = "fn" /\ test_warned
  /\ ctx_stack_index = cspec_ctx_stack_size_max - 1
  /\ ctx_stack_top = cspec_ctx_stack_size_max - 1

\* the group function is at a context() line whose block is new and the
\* context stack is full
EnterWhenFull ==
  /\ pc = "fn" /\ ~AtFnEnd
  /\ IF ip <= Len(file)
     THEN file[ip] = "C" /\ ContextBeginResult(Line(ip)) = "full"
     ELSE FALSE

\* C22: _cspec_context_begin on a full stack leaves the stack's top, cursor
\* and entries and the line filter unchanged; the block is skipped and the
\* group function goes on behind it.
C22_FullStackSkipsBlock ==
  [][EnterWhenFull
       => /\ ctx_stack' = ctx_stack
          /\ ctx_stack_top' = ctx_stack_top
          /\ ctx_stack_index' = ctx_stack_index
          /\ param_line' = param_line
          /\ pc' = "fn"
          /\ ip' = NextTok(Closer(ip) + 1)]_vars

\* C23 as stated: while a group is processed no step lowers
\* test_current_line.
C23_CursorMonotonic ==
  [][pc # "group" => test_current_line' >= test_current_line]_vars

\* C23: while a group is processed the only step that lowers
\* test_current_line is _cspec_context_end popping a context, which sets it
\* to the line after the context() line.
C23_CursorLoweredOnlyByLeave ==
  [][(pc # "group" /\ test_current_line' < test_current_line)
       => /\ pc = "ctxend" /\ ~test_in_progress
          /\ ctx_stack_top' = ctx_stack_top - 1
          /\ test_current_line' = Line(Opener(ip)) + 1]_vars

\* C23 witness: a pass has popped a context two of whose tests had run, and
\* the cursor is lower than it was when the pass started
C23_Witness ==
  /\ pc = "ret" /\ ~test_in_progress
  /\ test_current_line < prev_line
  /\ Len(executed) >= 2

\* the two barriers around the arena hold the byte written by
\* memory_test_reset
BarriersIntact ==
  \A i \in 0..(memory_size_barrier - 1) :
    /\ _memory[i] = BYTE_FF
    /\ _memory[i + memory_size_barrier + memory_size_max] = BYTE_FF

\* C24: no sandbox operation has undefined behaviour, every record's block
\* with its two fences lies inside the arena, the bump pointer is at most
\* the size of the arena, and the two barriers are as memory_test_reset
\* left them.
C24_BlocksInsideArena ==
  memory_records_set
    => /\ pc # "ub"
       /\ \A i \in 1..Len(memory_records) :
            /\ memory_records[i].block >= 0
            /\ memory_records[i].block + memory_size_fence * 2
                 + memory_records[i].size <= memory_size_max
       /\ memory_ptr <= memory_size_max
       /\ BarriersIntact

\* C25: the records of the table are in strictly ascending block order,
\* the fenced block of a record ends where or before the next one begins,
\* and the binary search of cspec_free finds a record for a pointer of the
\* arena exactly when the pointer is the payload start of some record.
C25_RecordsOrdered ==
  memory_records_set
    => /\ \A i \in 1..(Len(memory_records) - 1) :
            memory_records[i].block + memory_size_fence * 2
              + memory_records[i].size <= memory_records[i + 1].block
       /\ \A mem \in 0..(memory_size_max - 1) :
            bsearch(mem, 0, Len(memory_records)) # 0 <=> mem \in PayloadPtrs

\* C26: a calloc(ct, sel) of a test body has defined behaviour and returns
\* NULL or the payload of a new block of ct * sel bytes, each of them zero,
\* between two intact fences.
C26_CallocZeroed ==
  [][CallStep("calloc")
       => /\ pc' # "ub"
          /\ \/ call'.ret = NULL
             \/ LET record == memory_records'[Len(memory_records')] IN
                  /\ Len(memory_records') = Len(memory_records) + 1
                  /\ call'.ret = record.block + memory_size_fence
                  /\ record.size = call'.ct * call'.sel
                  /\ \A i \in 0..(record.size - 1) :
                       _memory'[call'.ret + i + memory_size_barrier] = 0
                  /\ memory_check_fence(_memory', record)]_vars

\* the request of the step is a malloc made of the sandbox whose size with
\* its two fences is more than what is left of the arena
MallocTooLarge ==
  /\ CallStep("malloc") /\ memory_records_set
  /\ memory_ptr + memory_size_fence * 2 + call'.size > memory_size_max

\* C27: a malloc whose size with its two fences does not fit in what is
\* left of the arena has defined behaviour, returns NULL, records the
\* out-of-test-memory error and leaves the arena as it was.
C27_TooLargeRefused ==
  [][MallocTooLarge
       => /\ pc' # "ub"
          /\ call'.ret = NULL
          /\ memory_error' /\ ~memory_expect_error'
          /\ _memory' = _memory /\ memory_ptr' = memory_ptr]_vars

\* the step is a call of _cspec_run_all made after an earlier call returned
LaterCall == pc = "done" /\ pc' = "group" /\ run_no' = run_no + 1

\* C28: a call of _cspec_run_all with no arguments, made after an earlier
\* call returned, starts with the line filter at its default 0 and the
\* force-fails and memory-testing parameters at theirs, whatever the
\* arguments of the earlier call were.
C28_LaterCallStartsFromDefaults ==
  [][LaterCall => /\ param_line' = 0
                  /\ ~param_no_expect_fail' /\ param_memory_test']_vars

\* _cspec_begin lets the test run: its body starts
TestStarts == pc = "fn" /\ pc' = "body" /\ memory_records_set

MallocCounted ==
  /\ call'.size # 0
  /\ memory_malloc_fail < M_FAIL_ONCE
  /\ memory_ptr + memory_size_fence * 2 + call'.size
       < memory_size_max - memory_size_fence * 2

\* the table is in the order bsearch needs: ascending block addresses
TableSorted ==
  \A i \in 1..(Len(memory_records) - 1) :
    memory_records[i].block < memory_records[i + 1].block

C30_NoTestTwice ==
  \A i \in 1..Len(executed) : \A j \in 1..Len(executed) :
    i # j => executed[i] # executed[j]

\* C30 witness: the run of a file of one group is over, it executed two
\* tests or more, and _cspec_context_end has left the cursor below the line
\* of one of them
C30_Witness ==
  /\ pc = "done"
  /\ \A i \in 2..Len(file) : ~IsGroup(file[i])
  /\ Len(executed) >= 2
  /\ \E k \in 1..Len(executed) : executed[k] > test_current_line

\* the lines strictly inside the block of the context that opens at token c
BlockOf(c) == (c + 1)..Closer(c)

\* the group function stands at the context() of a context that
\* _cspec_context_end has popped earlier in this group's run
AtPoppedContext ==
  /\ pc = "fn" /\ ~AtFnEnd
  /\ IF ip <= Len(file)
     THEN file[ip] = "C" /\ Line(ip) \in popped
     ELSE FALSE

\* C31: once _cspec_context_end has popped a context, every later
\* _cspec_context_begin for it in the same group's run returns FALSE and
\* leaves the stack, the cursor and the filter alone, the group function
\* goes on after the block, and it never stands inside the block again.
C31_PoppedNeverReentered ==
  /\ [][AtPoppedContext
          => /\ ContextBeginResult(Line(ip)) = "false"
             /\ pc' = "fn" /\ ip' = NextTok(Closer(ip) + 1)
             /\ UNCHANGED <<ctxVars, test_current_line, param_line,
                            executed>>]_vars
  /\ [](pc \in {"fn", "body", "ctxend"}
          => \A c \in 1..Len(file) :
               (file[c] = "C" /\ GroupOf(c) = grp /\ Line(c) \in popped)
                 => ip \notin BlockOf(c))

\* C31 witness: a later pass stands at the context() of a popped context
\* whose block holds a test that was executed
C31_Witness ==
  /\ AtPoppedContext
  /\ \E k \in 1..Len(executed) :
       Line(ip) < executed[k] /\ executed[k] < Line(Closer(ip))

\* the step takes a frame off the context stack
FramePopped == ctx_stack_top' < ctx_stack_top

\* C32: while a test is in progress no step of the group function, the
\* closing marker of a context included, changes the context stack or the
\* cursor; _cspec_context_end pops a frame only when no test is in progress
\* and no test body was executed in the pass; besides that pop, frames
\* leave the stack only when the group's run is over.
C32_PopOnlyInTestlessPass ==
  [][/\ (test_in_progress /\ pc \in {"fn", "ctxend"})
          => UNCHANGED <<ctxVars, test_current_line>>
     /\ (FramePopped /\ pc = "ctxend")
          => /\ ~test_in_progress /\ pass_tests = 0
             /\ ctx_stack_top' = ctx_stack_top - 1
     /\ (FramePopped /\ pc # "ctxend")
          => (pc = "ret" /\ pc' \in {"group", "done"}) \/ pc = "done"]_vars

\* C32 witness: _cspec_context_end has just popped a context in a pass
\* that executed no test, after an earlier pass executed a test of its
\* block and left the frame on the stack
C32_Witness ==
  /\ pc = "ret" /\ ~test_in_progress /\ pass_tests = 0
  /\ IF ip <= Len(file) THEN file[ip] = "E" ELSE FALSE
  /\ Line(Opener(ip)) \in popped
  /\ \E k \in 1..Len(executed) :
       Line(Opener(ip)) < executed[k] /\ executed[k] < Line(ip)

\* cspec_run_suite is about to process a group
GroupBegins == pc = "group" /\ pc' = "pass"

\* C33: cspec_run_suite changes the line filter before a group only by
\* clearing it when it equals the group's declaration line, and between two
\* groups and after the last one the filter holds the value process_args
\* gave it, whatever _cspec_context_begin and _cspec_context_end made of it
\* during a group.
C33_FilterRestoredAfterGroup ==
  /\ [][GroupBegins
          => /\ param_line' # param_line => param_line = Line(grp)
             /\ param_line' \in {param_line, 0}
             /\ (param_line = Line(grp)) => param_line' = 0]_vars
  /\ [](pc \in {"group", "done"} => param_line = argv.line)

\* C33 witness: the run stands before a second group with the filter back
\* at the context line it names, after that context was popped in the first
\* group and _cspec_context_end had set the filter to -1
C33_Witness ==
  /\ pc = "group" /\ grp > 1
  /\ popped_in = 1
  /\ argv.line > 0 /\ param_line = argv.line
  /\ file[argv.line] = "C"

\* the sandbox as memory_test_reset(TRUE) leaves it
SandboxEmpty ==
  /\ memory_records_set /\ Len(memory_records) = 0
  /\ memory_ptr = 0
  /\ memory_count_mallocs = 0 /\ memory_count_frees = 0
  /\ memory_malloc_fail = M_NORMAL /\ memory_malloc_forced_failures = 0
  /\ ~memory_error /\ ~memory_expect_error
  /\ BarriersIntact
  /\ \A p \in 0..(memory_size_max - 1) : Mem(p) = BYTE_X

\* C34: with memory testing enabled the sandbox is empty in every state
\* of a pass in which no test has begun yet, and in the state in which a
\* test body starts: no records, bump pointer and counters 0, no failure
\* forced, no memory error recorded or expected, both barriers intact and
\* every byte of the arena as the reset wrote it, whatever the test
\* before did.
C34_PassStartsEmpty ==
  /\ (param_memory_test /\ pass_tests = 0 /\ pc \in {"fn", "ctxend"})
       => SandboxEmpty
  /\ (param_memory_test /\ pc = "body" /\ call = NoCall /\ ops = PairBodyOps)
       => SandboxEmpty

\* C34 witness: the body of the second test starts on an empty sandbox
\* after the first test was counted as failed, which with these bodies is
\* by what it did to the sandbox
C34_Witness ==
  /\ pc = "body" /\ call = NoCall /\ ops = PairBodyOps
  /\ Len(executed) = 2
  /\ test_count = 1 /\ test_passed_count = 0
  /\ SandboxEmpty

\* the pointer is outside the usable arena, or inside it and not the
\* payload start of any record of the table
InvalidPtr(mem) ==
  /\ mem # NULL
  /\ \/ mem < 0 \/ mem >= memory_size_max
     \/ mem \notin PayloadPtrs

\* C35: inside a test, free of a pointer outside the usable arena, or
\* inside it and not the payload start of any record, sets memory_error and
\* changes no record, no byte of _memory, neither counter and not the bump
\* pointer; free(NULL) changes nothing of the sandbox, memory_error
\* included.
C35_InvalidFreeReportedOnly ==
  [][/\ (CallStep("free") /\ InvalidPtr(call'.mem))
          => /\ memory_error'
             /\ UNCHANGED <<_memory, memory_ptr, memory_records,
                            memory_count_mallocs, memory_count_frees>>
     /\ (CallStep("free") /\ call'.mem = NULL) => UNCHANGED memVars]_vars

\* C35 witness: with one block allocated and no error so far, the body
\* called free on the byte after the payload start, and the error is
\* recorded with the block still live and the free counter 0
C35_Witness ==
  /\ pc = "body" /\ call.op = "free"
  /\ Len(memory_records) = 1 /\ ~memory_records[1].is_free
  /\ call.mem = memory_records[1].block + memory_size_fence + 1
  /\ memory_error
  /\ memory_count_mallocs = 1 /\ memory_count_frees = 0
  /\ FencesIntact(_memory, memory_records) /\ BarriersIntact
  /\ misuse = {"free"}

\* the body's malloc or calloc returned NULL from the sandbox
NullReturned ==
  /\ pc = "body" /\ ops' = ops - 1 /\ memory_records_set
  /\ call'.op \in {"malloc", "calloc"}
  /\ call'.ret = NULL

\* C36: an allocation request that returns NULL appends no record to the
\* record table and leaves memory_count_mallocs and memory_ptr as they
\* were, whichever of the four refusals it was.
C36_NullLeavesTableAndCounter ==
  [][NullReturned
       => /\ Len(memory_records') = Len(memory_records)
          /\ memory_count_mallocs' = memory_count_mallocs
          /\ memory_ptr' = memory_ptr]_vars

\* the number of records marked freed
FreedCount ==
  Cardinality({j \in 1..Len(memory_records) : memory_records[j].is_free})

SetupOutsideTest ==
  /\ pc = "fn" /\ ~AtFnEnd /\ ~test_in_progress
  /\ IF ip <= Len(file) THEN file[ip] = "A" ELSE FALSE

\* the group function returned from a failed expectation of an "A" line
\* with no test in progress
SetupFailedOutsideTest ==
  /\ pc = "ret" /\ ~test_in_progress
  /\ IF ip >= 1 /\ ip <= Len(file) THEN file[ip] = "A" ELSE FALSE

\* C38: test_failed and memory_error go from FALSE to TRUE only in a step
\* taken with a test in progress. A failed expectation or a free of a
\* pointer outside the arena in a statement of the group body, executed
\* with no test in progress, finds both flags FALSE and leaves them so,
\* changes none of test_count, test_passed_count and test_warnings_count,
\* and changes nothing else either but the position of the group function,
\* which returns on the failed expectation; the pass loop's step after that
\* return changes no flag and no counter.
C38_FlagsOnlyInProgress ==
  /\ [][((test_failed' /\ ~test_failed) \/ (memory_error' /\ ~memory_error))
          => test_in_progress]_vars
  /\ [][SetupOutsideTest
          => /\ ~test_failed /\ ~memory_error
             /\ UNCHANGED <<test_failed, memory_error, test_count,
                            test_passed_count, test_warnings_count>>
             /\ UNCHANGED <<inputVars, paramVars, ctxVars, memVars, localVars,
                            histVars, runVars, test_warned, test_in_progress,
                            test_expect_fail, test_skip, test_current_line>>
             /\ pc' \in {"fn", "ret"}]_vars
  /\ [][SetupFailedOutsideTest
          => /\ UNCHANGED <<test_failed, memory_error, test_count,
                            test_passed_count, test_warnings_count>>
             /\ pc' \in {"pass", "group", "done"}]_vars

\* C38 witness: after one test ran and passed, a later pass ended on a
\* failed expectation of the group body with no test in progress, and the
\* flags are clear and the counters are those of the one test
C38_Witness ==
  /\ SetupFailedOutsideTest
  /\ ~test_failed /\ ~memory_error
  /\ test_count = 1 /\ test_passed_count = 1
  /\ Len(executed) = 1

\* every context block that holds line j holds line i as well
Encloses(j, i) ==
  \A c \in 1..Len(file) :
    (file[c] = "C" /\ j \in BlockOf(c)) => i \in BlockOf(c)

\* a directive line of the group stands before line i in the group body
\* itself or in a context block that holds line i
DirectiveInScope(i) ==
  \E j \in (grp + 1)..(i - 1) : file[j] = "X" /\ Encloses(j, i)

\* some flag an expectation directive sets is set
DirectiveFlags ==
  \/ test_expect_fail \/ test_skip
  \/ memory_expect_error \/ memory_malloc_fail # M_NORMAL

\* _cspec_begin lets the test of the line enter execution
TestBegins == pc = "fn" /\ pc' = "body"

\* C39: at the moment a test begins, a flag of an expectation directive
\* (test_expect_fail, test_skip, memory_expect_error, memory_malloc_fail)
\* is set only if a directive line stands before the test in a context
\* block that holds the test; with every directive line in a context the
\* test is outside of, all of them are clear.
C39_DirectiveScopedToContext ==
  [][TestBegins => (DirectiveFlags => DirectiveInScope(ip))]_vars

\* C39 witness: a context that holds a directive line and a test was run
\* and popped, and a test after the context has begun with the flags clear
C39_Witness ==
  /\ pc = "body" /\ ops = EngineBodyOps /\ ~DirectiveFlags
  /\ Len(executed) = 2 /\ test_count = 1
  /\ \E c \in 1..Len(file) :
       /\ file[c] = "C" /\ Line(c) \in popped
       /\ ip \notin BlockOf(c)
       /\ \E j \in BlockOf(c) : file[j] = "X" /\ j < executed[1]
       /\ executed[1] \in BlockOf(c)

=============================================================================
